---- MODULE Spec2Model ----
(***************************************************************************)
(* Row query engine of the airtable clone: the row router (infinite,       *)
(* count, addRow, generate100k) over the Row store, with the filter and    *)
(* search fragment builders, the keyset cursor and the view merge.         *)
(*                                                                         *)
(* Data encoding.  A JSON scalar stored in a cell, sent in a request or    *)
(* kept in a cursor is a tagged record: JNull, JNum(n), JStr(s).  A text   *)
(* is a sequence of character codes (ASCII), so that ILIKE, trim, String() *)
(* and Number() are computed on characters.  A key absent from cells is a  *)
(* key absent from the DOMAIN of the cells function.  SQL NULL is SqlNull. *)
(* SQL booleans are three-valued: "T", "F", "N".  Row ids are cuids in the *)
(* program; here they are naturals, compared as Postgres compares the text *)
(* ids (a total order).                                                    *)
(***************************************************************************)
EXTENDS Integers, Sequences, FiniteSets, TLC

VARIABLES
    rows,       \* the Row table: set of [id, tableId, order, cells]
    columns,    \* the Column table of table t1: column id -> "TEXT" | "NUMBER"
    viewCfg,    \* persisted View.config (a JSON value) of the view a request names
    nanBind,    \* how the driver binds a NaN query parameter: "NaN" or "NULL"
    req,        \* the fixed arguments of the client's row.infinite / row.count calls
    walk,       \* the client's pagination walk over row.infinite
    cnt,        \* the last row.count response
    adders,     \* addRow calls in flight: process -> [pc, tableId, maxOrder]
    gen,        \* the generate100k call in flight
    inserted,   \* history: rows created since the initial state, with the walk position then
    updaters,   \* updateCell calls in flight: process -> [pc, rowId, columnId, cells, nextValue]
    failures,   \* history: the mutation calls that threw, [call, code]
    norm,       \* the last normalizeViewConfig call of the dashboard: its input and what it returned or threw
    colDel,     \* the column.delete call in flight: [pc, columnId]
    views,      \* the View table: set of [id, tableId, isDefault]
    viewSeq,    \* the number of the next view view.create inserts
    viewOps,    \* view.create / setDefault / delete calls in flight: process -> [pc, viewId, tableId]
    edited      \* history: the rows updateCell has written, with what the walk had returned by then

vars == <<rows, columns, viewCfg, nanBind, req, walk, cnt, adders, gen, inserted, updaters, failures,
          norm, colDel, views, viewSeq, viewOps, edited>>

-----------------------------------------------------------------------------
(* Bounds of the model *)

\* most rows the store holds
MaxRows == 5
\* concurrent addRow calls
NumAdders == 1
\* concurrent updateCell calls
NumUpdaters == 2
NumViewOps == 2
MaxEdits == 2
\* the views view.create inserts in one behaviour
MaxViewCreates == 2
\* generate100k: rows asked of one call (TOTAL) and rows of one createMany (BATCH)
GenTotal == 2
GenBatch == 1

\* createWithDefaults: DEFAULT_ROWS
DEFAULT_ROWS == 3
\* infinite: limit max of the input schema
LIMIT_MAX == 200
\* infinite, count, view config: search max length
SEARCH_MAX == 200

-----------------------------------------------------------------------------
(* JSON scalars, texts *)

JNull == [k |-> "null"]
JNum(n) == [k |-> "num", n |-> n]
JStr(s) == [k |-> "str", s |-> s]
\* a request field that was not sent (undefined)
Undef == [k |-> "undef"]
\* JS NaN, the result of Number() on a non-numeric input
NaN == [k |-> "nan"]
SqlNull == [k |-> "sqlnull"]

IsNum(v) == v.k = "num"
IsStr(v) == v.k = "str"

\* character codes (ASCII) of the characters the inputs use
Ch == [space |-> 32, percent |-> 37, zero |-> 48, nine |-> 57, upA |-> 65, upZ |-> 90,
       underscore |-> 95, lowA |-> 97, lowB |-> 98]

RECURSIVE Digits(_)
\* decimal digits of a natural (String(n) in JS, jsonb number ->> text in SQL)
Digits(n) == IF n < 10 THEN <<Ch.zero + n>> ELSE Digits(n \div 10) \o <<Ch.zero + (n % 10)>>

IsDigitString(s) == s # <<>> /\ \A i \in 1..Len(s) : s[i] >= Ch.zero /\ s[i] <= Ch.nine

RECURSIVE DigitsValue(_)
DigitsValue(s) == IF s = <<>> THEN 0 ELSE DigitsValue(SubSeq(s, 1, Len(s) - 1)) * 10 + (s[Len(s)] - Ch.zero)

RECURSIVE TrimLeft(_)
TrimLeft(s) == IF s # <<>> /\ Head(s) = Ch.space THEN TrimLeft(Tail(s)) ELSE s

RECURSIVE TrimRight(_)
TrimRight(s) == IF s # <<>> /\ s[Len(s)] = Ch.space THEN TrimRight(SubSeq(s, 1, Len(s) - 1)) ELSE s

\* String.prototype.trim
Trim(s) == TrimRight(TrimLeft(s))

\* JS Number(v) for v a string, a number, null or undefined
JsNumber(v) ==
    CASE v.k = "num" -> v
      [] v.k = "null" -> JNum(0)
      [] v.k = "undef" -> NaN
      [] v.k = "str" ->
            IF Trim(v.s) = <<>> THEN JNum(0)
            ELSE IF IsDigitString(Trim(v.s)) THEN JNum(DigitsValue(Trim(v.s)))
            ELSE NaN
      [] OTHER -> NaN

\* JS String(v ?? "")
JsStringOrEmpty(v) ==
    CASE v.k = "str" -> v.s
      [] v.k = "num" -> Digits(v.n)
      [] OTHER -> <<>>

\* JS String(v) for v a string or a number
JsString(v) == IF v.k = "num" THEN Digits(v.n) ELSE v.s

LowerCh(c) == IF c >= Ch.upA /\ c <= Ch.upZ THEN c + (Ch.lowA - Ch.upA) ELSE c

RECURSIVE LikeMatch(_, _)
\* text ILIKE pattern: % matches any run, _ any one character, case-insensitive
LikeMatch(p, s) ==
    IF p = <<>> THEN s = <<>>
    ELSE IF Head(p) = Ch.percent
         THEN LikeMatch(Tail(p), s) \/ (s # <<>> /\ LikeMatch(p, Tail(s)))
    ELSE IF s = <<>> THEN FALSE
    ELSE (Head(p) = Ch.underscore \/ LowerCh(Head(p)) = LowerCh(Head(s)))
         /\ LikeMatch(Tail(p), Tail(s))

RECURSIVE TextLess(_, _)
\* text < text (byte order)
TextLess(a, b) ==
    IF b = <<>> THEN FALSE
    ELSE IF a = <<>> THEN TRUE
    ELSE IF Head(a) # Head(b) THEN Head(a) < Head(b)
    ELSE TextLess(Tail(a), Tail(b))

-----------------------------------------------------------------------------
(* SQL three-valued logic *)

Sql3(b) == IF b THEN "T" ELSE "F"

SqlOr(a, b) == IF a = "T" \/ b = "T" THEN "T" ELSE IF a = "N" \/ b = "N" THEN "N" ELSE "F"

SqlAnd(a, b) == IF a = "F" \/ b = "F" THEN "F" ELSE IF a = "N" \/ b = "N" THEN "N" ELSE "T"

RECURSIVE SqlJoinOr(_)
\* Prisma.join(conditions, " OR ")
SqlJoinOr(bs) == IF Len(bs) = 1 THEN bs[1] ELSE SqlOr(bs[1], SqlJoinOr(Tail(bs)))

RECURSIVE SqlJoinAnd(_)
\* Prisma.join(conditions, " AND ")
SqlJoinAnd(bs) == IF Len(bs) = 1 THEN bs[1] ELSE SqlAnd(bs[1], SqlJoinAnd(Tail(bs)))

-----------------------------------------------------------------------------
(* Reading cells in SQL *)

\* ids the schema accepts as cuid: the columns of the table and a stale column id
CuidSpace == {"cName", "cValue", "cGone"}

\* columnTypes.get(columnId) ?? "TEXT"
ColType(cols, c) == IF c \in DOMAIN cols THEN cols[c] ELSE "TEXT"

\* cells->>'c': SQL NULL for an absent key or a JSON null, else the value as text
CellText(row, c) ==
    IF c \notin DOMAIN row.cells THEN SqlNull
    ELSE IF row.cells[c].k = "null" THEN SqlNull
    ELSE IF row.cells[c].k = "num" THEN JStr(Digits(row.cells[c].n))
    ELSE JStr(row.cells[c].s)

\* NULLIF(t, '')
NullIfEmpty(t) == IF t.k = "str" /\ t.s = <<>> THEN SqlNull ELSE t

\* NULLIF(t, '')::numeric ; a text that is no number makes the statement fail
NumericCast(t) ==
    IF NullIfEmpty(t).k = "sqlnull" THEN SqlNull
    ELSE IF IsDigitString(t.s) THEN JNum(DigitsValue(t.s))
    ELSE [k |-> "err"]

\* a JS number bound as a query parameter
BindNumber(p) == IF p.k = "nan" /\ nanBind = "NULL" THEN SqlNull ELSE p

\* a < b on two SQL scalars of one type (numeric NaN is above every number)
SqlLess(a, b) ==
    IF a.k = "sqlnull" \/ b.k = "sqlnull" THEN "N"
    ELSE IF a.k = "str" /\ b.k = "str" THEN Sql3(TextLess(a.s, b.s))
    ELSE IF a.k = "nan" THEN "F"
    ELSE IF b.k = "nan" THEN Sql3(a.k = "num")
    ELSE IF a.k = "num" /\ b.k = "num" THEN Sql3(a.n < b.n)
    ELSE "N"

\* a = b on two SQL scalars of one type
SqlEq(a, b) ==
    IF a.k = "sqlnull" \/ b.k = "sqlnull" THEN "N"
    ELSE IF a.k = "str" /\ b.k = "str" THEN Sql3(a.s = b.s)
    ELSE IF a.k = "nan" \/ b.k = "nan" THEN Sql3(a.k = b.k)
    ELSE IF a.k = "num" /\ b.k = "num" THEN Sql3(a.n = b.n)
    ELSE "N"

-----------------------------------------------------------------------------
(* buildSearchSQL, buildFilterSQL *)

\* buildSearchSQL, evaluated on one row
BuildSearchSQL(search, columnIds, row) ==
    LET q == Trim(IF search.k = "str" THEN search.s ELSE <<>>)
        like == <<Ch.percent>> \o q \o <<Ch.percent>>
        coalesce(c) == IF CellText(row, c).k = "sqlnull" THEN <<>> ELSE CellText(row, c).s
    IN  IF q = <<>> \/ columnIds = {} THEN "T"
        ELSE Sql3(\E c \in columnIds : LikeMatch(like, coalesce(c)))

NumberOps == {"gt", "lt", "equals", "isEmpty", "isNotEmpty"}
TextOps == {"contains", "notContains", "equals", "isEmpty", "isNotEmpty"}
FilterOperators == {"contains", "notContains", "equals", "isEmpty", "isNotEmpty", "gt", "lt"}

\* whether the switch of buildFilterSQL pushes a condition for f
PushesCondition(f, cols) ==
    IF ColType(cols, f.columnId) = "NUMBER" THEN f.operator \in NumberOps
    ELSE f.operator \in TextOps

\* the fragment buildFilterSQL pushes for a condition on a NUMBER column, on one row
NumberConditionSQL(f, row) ==
    LET raw == CellText(row, f.columnId)
        numeric == NumericCast(raw)
        param == BindNumber(JsNumber(f.value))
    IN  CASE f.operator = "gt" -> SqlLess(param, numeric)
          [] f.operator = "lt" -> SqlLess(numeric, param)
          [] f.operator = "equals" -> SqlEq(numeric, param)
          [] f.operator = "isEmpty" -> Sql3(raw.k = "sqlnull" \/ raw.s = <<>>)
          [] f.operator = "isNotEmpty" -> Sql3(raw.k # "sqlnull" /\ raw.s # <<>>)

\* TEXT fragments whose equals reads an absent or null cell as the empty string
TextConditionSQLEqualsCoalesce(f, row) ==
    LET text == CellText(row, f.columnId)
        pattern == <<Ch.percent>> \o JsStringOrEmpty(f.value) \o <<Ch.percent>>
    IN  CASE f.operator = "contains" ->
                IF text.k = "sqlnull" THEN "N" ELSE Sql3(LikeMatch(pattern, text.s))
          [] f.operator = "notContains" ->
                Sql3(~LikeMatch(pattern, IF text.k = "sqlnull" THEN <<>> ELSE text.s))
          [] f.operator = "equals" ->
                SqlEq(IF text.k = "sqlnull" THEN JStr(<<>>) ELSE text, JStr(JsStringOrEmpty(f.value)))
          [] f.operator = "isEmpty" -> Sql3(text.k = "sqlnull" \/ text.s = <<>>)
          [] f.operator = "isNotEmpty" -> Sql3(text.k # "sqlnull" /\ text.s # <<>>)

\* TEXT fragments whose notContains reads the cell without COALESCE
TextConditionSQLNoCoalesce(f, row) ==
    LET text == CellText(row, f.columnId)
        pattern == <<Ch.percent>> \o JsStringOrEmpty(f.value) \o <<Ch.percent>>
    IN  CASE f.operator = "contains" ->
                IF text.k = "sqlnull" THEN "N" ELSE Sql3(LikeMatch(pattern, text.s))
          [] f.operator = "notContains" ->
                IF text.k = "sqlnull" THEN "N" ELSE Sql3(~LikeMatch(pattern, text.s))
          [] f.operator = "equals" -> SqlEq(text, JStr(JsStringOrEmpty(f.value)))
          [] f.operator = "isEmpty" -> Sql3(text.k = "sqlnull" \/ text.s = <<>>)
          [] f.operator = "isNotEmpty" -> Sql3(text.k # "sqlnull" /\ text.s # <<>>)

\* the fragment buildFilterSQL pushes for a condition on a TEXT column, on one row
TextConditionSQL(f, row) ==
    LET text == CellText(row, f.columnId)
        pattern == <<Ch.percent>> \o JsStringOrEmpty(f.value) \o <<Ch.percent>>
    IN  CASE f.operator = "contains" ->
                IF text.k = "sqlnull" THEN "N" ELSE Sql3(LikeMatch(pattern, text.s))
          [] f.operator = "notContains" ->
                Sql3(~LikeMatch(pattern, IF text.k = "sqlnull" THEN <<>> ELSE text.s))
          [] f.operator = "equals" -> SqlEq(text, JStr(JsStringOrEmpty(f.value)))
          [] f.operator = "isEmpty" -> Sql3(text.k = "sqlnull" \/ text.s = <<>>)
          [] f.operator = "isNotEmpty" -> Sql3(text.k # "sqlnull" /\ text.s # <<>>)

ConditionSQL(f, cols, row) ==
    IF ColType(cols, f.columnId) = "NUMBER" THEN NumberConditionSQL(f, row)
    ELSE TextConditionSQL(f, row)

\* a join that ignores the conjunction
JoinConditionsAnd(conjunction, bs) ==
    IF bs = <<>> THEN "T"
    ELSE SqlJoinAnd(bs)

\* the joined fragment, given the pushed fragments' values
JoinConditions(conjunction, bs) ==
    IF bs = <<>> THEN "T"
    ELSE IF conjunction = "or" THEN SqlJoinOr(bs) ELSE SqlJoinAnd(bs)

\* a builder for which a condition with an unrecognised operator matches no row
BuildFilterSQLUnknownFalse(filters, cols, row) ==
    JoinConditions(filters.conjunction,
                   [i \in 1..Len(filters.conditions) |->
                       IF PushesCondition(filters.conditions[i], cols)
                       THEN ConditionSQL(filters.conditions[i], cols, row)
                       ELSE "F"])

\* buildFilterSQL, evaluated on one row
BuildFilterSQL(filters, cols, row) ==
    LET pushed == SelectSeq(filters.conditions, LAMBDA f : PushesCondition(f, cols))
    IN  JoinConditions(filters.conjunction,
                       [i \in 1..Len(pushed) |-> ConditionSQL(pushed[i], cols, row)])

\* getPrimarySort: the first sort, or none
GetPrimarySort(sorts) == IF Len(sorts) = 0 THEN Undef ELSE [k |-> "sort"] @@ sorts[1]

-----------------------------------------------------------------------------
(* The persisted view and its parse (zod safeParse of View.config) *)

Tables == {"t1", "t2", "t3"}
\* the tables whose base belongs to the caller (ctx.dbUser)
OwnedTables == {"t1", "t3"}
\* the caller's table that holds the rows and the columns of the model
RowTable == "t1"

DefaultFilters == [k |-> "filters", conjunction |-> "and", conditions |-> <<>>]

\* z.string().max(200).nullable().optional()
SearchParses(j) == j.k \in {"undef", "null"} \/ (j.k = "str" /\ Len(j.s) <= SEARCH_MAX)

\* filterConditionSchema
ConditionParses(c) ==
    /\ c.k = "obj"
    /\ c.columnId \in CuidSpace
    /\ c.operator \in FilterOperators
    /\ c.value.k \in {"undef", "null", "str", "num"}

\* filtersSchema.optional()
FiltersParse(j) ==
    \/ j.k = "undef"
    \/ /\ j.k = "obj"
       /\ j.conjunction \in {"undef", "and", "or"}
       /\ \/ j.conditions.k = "undef"
          \/ /\ j.conditions.k = "arr"
             /\ \A i \in 1..Len(j.conditions.items) : ConditionParses(j.conditions.items[i])

\* z.array(sortSchema).optional()
SortsParse(j) ==
    \/ j.k = "undef"
    \/ /\ j.k = "arr"
       /\ \A i \in 1..Len(j.items) :
             /\ j.items[i].k = "obj"
             /\ j.items[i].columnId \in CuidSpace
             /\ j.items[i].direction \in {"asc", "desc"}

\* parsed.data.filters: the defaults of filtersSchema applied
ParsedFilters(j) ==
    IF j.k = "undef" THEN Undef
    ELSE [k |-> "filters",
          conjunction |-> IF j.conjunction = "undef" THEN "and" ELSE j.conjunction,
          conditions |-> IF j.conditions.k = "undef" THEN <<>>
                         ELSE [i \in 1..Len(j.conditions.items) |->
                                 [columnId |-> j.conditions.items[i].columnId,
                                  operator |-> j.conditions.items[i].operator,
                                  value |-> j.conditions.items[i].value]]]

\* parsed.data.sorts
ParsedSorts(j) ==
    IF j.k = "undef" THEN Undef
    ELSE [k |-> "arr",
          items |-> [i \in 1..Len(j.items) |->
                       [columnId |-> j.items[i].columnId, direction |-> j.items[i].direction]]]

\* ctx.db.view.findFirst({id: viewId, table: {base: {userId}}}): the view's config, or none
FindViewConfig(viewId) ==
    IF \E v \in views : v.id = viewId /\ v.tableId \in OwnedTables
    THEN [found |-> TRUE, config |-> viewCfg]
    ELSE [found |-> FALSE, config |-> JNull]

\* safeParse of infinite: search, filters and sorts
InfiniteConfigParses(j) ==
    j.k = "obj" /\ SearchParses(j.search) /\ FiltersParse(j.filters) /\ SortsParse(j.sorts)

\* safeParse of count: search and filters only
CountConfigParses(j) ==
    j.k = "obj" /\ SearchParses(j.search) /\ FiltersParse(j.filters)

\* a ?? b
Coalesce(a, b) == IF a.k \in {"undef", "null"} THEN b ELSE a

\* a merge that, when the view's config does not parse, drops the request's
\* values with it
InfiniteMergedDropsRequest(input) ==
    LET base == [search |-> Coalesce(input.search, JNull),
                 filters |-> Coalesce(input.filters, DefaultFilters),
                 sorts |-> Coalesce(input.sorts, [k |-> "arr", items |-> <<>>])]
        view == FindViewConfig(input.viewId)
    IN  IF input.viewId # "none" /\ view.found
        THEN IF InfiniteConfigParses(view.config)
             THEN [search |-> Coalesce(view.config.search, base.search),
                   filters |-> Coalesce(ParsedFilters(view.config.filters), base.filters),
                   sorts |-> Coalesce(ParsedSorts(view.config.sorts), base.sorts)]
             ELSE [search |-> JNull, filters |-> DefaultFilters,
                   sorts |-> [k |-> "arr", items |-> <<>>]]
        ELSE base

\* infinite: mergedSearch, mergedFilters, mergedSorts
InfiniteMerged(input) ==
    LET base == [search |-> Coalesce(input.search, JNull),
                 filters |-> Coalesce(input.filters, DefaultFilters),
                 sorts |-> Coalesce(input.sorts, [k |-> "arr", items |-> <<>>])]
        view == FindViewConfig(input.viewId)
    IN  IF input.viewId # "none" /\ view.found /\ InfiniteConfigParses(view.config)
        THEN [search |-> Coalesce(view.config.search, base.search),
              filters |-> Coalesce(ParsedFilters(view.config.filters), base.filters),
              sorts |-> Coalesce(ParsedSorts(view.config.sorts), base.sorts)]
        ELSE base

\* count: mergedSearch, mergedFilters
CountMerged(input) ==
    LET base == [search |-> Coalesce(input.search, JNull),
                 filters |-> Coalesce(input.filters, DefaultFilters)]
        view == FindViewConfig(input.viewId)
    IN  IF input.viewId # "none" /\ view.found /\ CountConfigParses(view.config)
        THEN [search |-> Coalesce(view.config.search, base.search),
              filters |-> Coalesce(ParsedFilters(view.config.filters), base.filters)]
        ELSE base

-----------------------------------------------------------------------------
(* ORDER BY and the cursor predicate of infinite *)

\* sortKey: NULLIF(cells->>'c', '')::numeric for NUMBER, NULLIF(cells->>'c', '') for TEXT
SortKey(row, ps, cols) ==
    IF ColType(cols, ps.columnId) = "NUMBER" THEN NumericCast(CellText(row, ps.columnId))
    ELSE NullIfEmpty(CellText(row, ps.columnId))

\* an ORDER BY on the sort key alone, without the id: rows with equal keys are
\* in no order
OrderBeforeNoTieBreak(a, b, ps, cols) ==
    IF ps.k = "undef"
    THEN a.order < b.order
    ELSE LET ka == SortKey(a, ps, cols)
             kb == SortKey(b, ps, cols)
         IN  IF ka.k = "sqlnull" THEN FALSE
             ELSE IF kb.k = "sqlnull" THEN TRUE
             ELSE IF SqlEq(ka, kb) = "T" THEN FALSE
             ELSE IF ps.direction = "desc" THEN SqlLess(kb, ka) = "T"
             ELSE SqlLess(ka, kb) = "T"

\* an ORDER BY without NULLS LAST: Postgres then puts NULLs first when descending
OrderBeforeDefaultNulls(a, b, ps, cols) ==
    IF ps.k = "undef"
    THEN a.order < b.order \/ (a.order = b.order /\ a.id < b.id)
    ELSE LET ka == SortKey(a, ps, cols)
             kb == SortKey(b, ps, cols)
             idBefore == IF ps.direction = "desc" THEN a.id > b.id ELSE a.id < b.id
         IN  IF ka.k = "sqlnull" /\ kb.k = "sqlnull" THEN idBefore
             ELSE IF ka.k = "sqlnull" THEN ps.direction = "desc"
             ELSE IF kb.k = "sqlnull" THEN ps.direction # "desc"
             ELSE IF SqlEq(ka, kb) = "T" THEN idBefore
             ELSE IF ps.direction = "desc" THEN SqlLess(kb, ka) = "T"
             ELSE SqlLess(ka, kb) = "T"

\* ORDER BY orderBySQL: row a is sorted before row b
OrderBefore(a, b, ps, cols) ==
    IF ps.k = "undef"
    THEN a.order < b.order \/ (a.order = b.order /\ a.id < b.id)
    ELSE LET ka == SortKey(a, ps, cols)
             kb == SortKey(b, ps, cols)
             idBefore == IF ps.direction = "desc" THEN a.id > b.id ELSE a.id < b.id
         IN  IF ka.k = "sqlnull" THEN kb.k = "sqlnull" /\ idBefore
             ELSE IF kb.k = "sqlnull" THEN TRUE
             ELSE IF SqlEq(ka, kb) = "T" THEN idBefore
             ELSE IF ps.direction = "desc" THEN SqlLess(kb, ka) = "T"
             ELSE SqlLess(ka, kb) = "T"

\* the one element of a singleton set
Only(S) == CHOOSE x \in S : TRUE

RECURSIVE OrderBy(_, _, _)
\* the rows of S in ORDER BY order
OrderBy(S, ps, cols) ==
    IF S = {} THEN <<>>
    ELSE Only({ <<first>> \o OrderBy(S \ {first}, ps, cols) :
                  first \in {r \in S : \A o \in S \ {r} : OrderBefore(r, o, ps, cols)} })

\* the SQL row comparison (k, id) > (v, cid)
RowGreater(k, id, v, cid) ==
    IF SqlEq(k, v) = "N" THEN "N"
    ELSE IF SqlEq(k, v) = "T" THEN Sql3(id > cid)
    ELSE SqlLess(v, k)

\* the SQL row comparison (k, id) < (v, cid)
RowLess(k, id, v, cid) ==
    IF SqlEq(k, v) = "N" THEN "N"
    ELSE IF SqlEq(k, v) = "T" THEN Sql3(id < cid)
    ELSE SqlLess(k, v)

\* a sorted cursorSQL without the OR sortKey IS NULL clause
SortedCursorSQLNoNulls(cursor, ps, dir, cols, row) ==
    LET sortKey == SortKey(row, ps, cols)
        cursorVal == Coalesce(cursor.sortValue, JNull)
        typedCursorVal == IF ColType(cols, ps.columnId) = "NUMBER"
                          THEN BindNumber(JsNumber(cursorVal))
                          ELSE JStr(JsString(cursorVal))
    IN  IF cursorVal.k = "null"
        THEN IF dir = "desc"
             THEN SqlAnd(Sql3(sortKey.k = "sqlnull"), Sql3(row.id < cursor.id))
             ELSE SqlAnd(Sql3(sortKey.k = "sqlnull"), Sql3(row.id > cursor.id))
        ELSE IF dir = "desc"
             THEN RowLess(sortKey, row.id, typedCursorVal, cursor.id)
             ELSE RowGreater(sortKey, row.id, typedCursorVal, cursor.id)

\* cursorSQL of the sorted branch on one row, for a given direction
SortedCursorSQL(cursor, ps, dir, cols, row) ==
    LET sortKey == SortKey(row, ps, cols)
        cursorVal == Coalesce(cursor.sortValue, JNull)
        typedCursorVal == IF ColType(cols, ps.columnId) = "NUMBER"
                          THEN BindNumber(JsNumber(cursorVal))
                          ELSE JStr(JsString(cursorVal))
    IN  IF cursorVal.k = "null"
        THEN IF dir = "desc"
             THEN SqlAnd(Sql3(sortKey.k = "sqlnull"), Sql3(row.id < cursor.id))
             ELSE SqlAnd(Sql3(sortKey.k = "sqlnull"), Sql3(row.id > cursor.id))
        ELSE IF dir = "desc"
             THEN SqlOr(RowLess(sortKey, row.id, typedCursorVal, cursor.id),
                        Sql3(sortKey.k = "sqlnull"))
             ELSE SqlOr(RowGreater(sortKey, row.id, typedCursorVal, cursor.id),
                        Sql3(sortKey.k = "sqlnull"))

\* a cursorSQL that forgets to flip the comparison for a descending sort
CursorSQLNoFlip(cursor, ps, cols, row) ==
    IF ps.k = "undef"
    THEN IF cursor.k = "cursor" /\ cursor.order.k # "undef"
         THEN RowGreater(JNum(row.order), row.id, cursor.order, cursor.id)
         ELSE "T"
    ELSE IF cursor.k # "cursor" THEN "T"
    ELSE SortedCursorSQL(cursor, ps, "asc", cols, row)

\* cursorSQL on one row ("T" when the fragment is empty)
CursorSQL(cursor, ps, cols, row) ==
    IF ps.k = "undef"
    THEN IF cursor.k = "cursor" /\ cursor.order.k # "undef"
         THEN RowGreater(JNum(row.order), row.id, cursor.order, cursor.id)
         ELSE "T"
    ELSE IF cursor.k # "cursor" THEN "T"
    ELSE SortedCursorSQL(cursor, ps, ps.direction, cols, row)

\* a nextCursor that carries the cell as stored, the empty string included
MintCursorStoredValue(last, ps) ==
    IF ps.k = "undef"
    THEN [k |-> "cursor", id |-> last.id, order |-> JNum(last.order), sortValue |-> Undef]
    ELSE [k |-> "cursor", id |-> last.id, order |-> Undef,
          sortValue |-> IF ps.columnId \notin DOMAIN last.cells THEN JNull
                        ELSE last.cells[ps.columnId]]

\* a nextCursor of the default order that carries the id with the order 0
\* instead of the row's order
MintCursorOrderZero(last, ps) ==
    IF ps.k = "undef"
    THEN [k |-> "cursor", id |-> last.id, order |-> JNum(0), sortValue |-> Undef]
    ELSE [k |-> "cursor", id |-> last.id, order |-> Undef,
          sortValue |-> IF ps.columnId \notin DOMAIN last.cells THEN JNull
                        ELSE IF last.cells[ps.columnId].k = "str"
                                /\ last.cells[ps.columnId].s = <<>> THEN JNull
                        ELSE last.cells[ps.columnId]]

\* nextCursor minted from the row popped from the result
MintCursor(last, ps) ==
    IF ps.k = "undef"
    THEN [k |-> "cursor", id |-> last.id, order |-> JNum(last.order), sortValue |-> Undef]
    ELSE [k |-> "cursor", id |-> last.id, order |-> Undef,
          sortValue |-> IF ps.columnId \notin DOMAIN last.cells THEN JNull
                        ELSE IF last.cells[ps.columnId].k = "str"
                                /\ last.cells[ps.columnId].s = <<>> THEN JNull
                        ELSE last.cells[ps.columnId]]

-----------------------------------------------------------------------------
(* rowRouter.infinite and rowRouter.count *)

Min(a, b) == IF a < b THEN a ELSE b

TableRows(tableId) == {r \in rows : r.tableId = tableId}

\* the WHERE clause without the cursor fragment: tableId, filterSQL and searchSQL
WhereSQL(merged, cols, row) ==
    SqlAnd(BuildFilterSQL(merged.filters, cols, row),
           BuildSearchSQL(merged.search, DOMAIN cols, row))

\* a ::numeric cast of the statement fails on some row of the table
CastFails(merged, ps, cols, tableRows) ==
    \E r \in tableRows :
        \/ /\ ps.k # "undef"
           /\ SortKey(r, ps, cols).k = "err"
        \/ \E i \in 1..Len(merged.filters.conditions) :
              LET f == merged.filters.conditions[i]
              IN  /\ ColType(cols, f.columnId) = "NUMBER"
                  /\ f.operator \in {"gt", "lt", "equals"}
                  /\ NumericCast(CellText(r, f.columnId)).k = "err"

\* the rows the page query of infinite selects, in order, before LIMIT
PageQuery(merged, ps, cols, cursor, tableRows) ==
    OrderBy({r \in tableRows : /\ WhereSQL(merged, cols, r) = "T"
                               /\ CursorSQL(cursor, ps, cols, r) = "T"},
            ps, cols)

\* a response that fetches LIMIT limit rows and announces a next page whenever
\* the page is full
InfiniteResponseFullPage(input, cursor) ==
    IF input.tableId \notin OwnedTables
    THEN [status |-> "NOT_FOUND", rows |-> <<>>, nextCursor |-> Undef, merged |-> Undef]
    ELSE LET merged == InfiniteMerged(input)
             ps == GetPrimarySort(merged.sorts.items)
             tableRows == TableRows(input.tableId)
             selected == PageQuery(merged, ps, columns, cursor, tableRows)
             fetched == SubSeq(selected, 1, Min(Len(selected), input.limit))
         IN  IF CastFails(merged, ps, columns, tableRows)
             THEN [status |-> "INTERNAL_SERVER_ERROR", rows |-> <<>>, nextCursor |-> Undef,
                   merged |-> merged]
             ELSE IF Len(fetched) >= input.limit
             THEN [status |-> "ok", rows |-> fetched,
                   nextCursor |-> MintCursor(fetched[Len(fetched)], ps), merged |-> merged]
             ELSE [status |-> "ok", rows |-> fetched, nextCursor |-> Undef, merged |-> merged]

\* the response of rowRouter.infinite to input with the given cursor (merged: the
\* search, filters and sorts the handler worked with)
InfiniteResponse(input, cursor) ==
    IF input.tableId \notin OwnedTables
    THEN [status |-> "NOT_FOUND", rows |-> <<>>, nextCursor |-> Undef, merged |-> Undef]
    ELSE LET merged == InfiniteMerged(input)
             ps == GetPrimarySort(merged.sorts.items)
             tableRows == TableRows(input.tableId)
             selected == PageQuery(merged, ps, columns, cursor, tableRows)
             fetched == SubSeq(selected, 1, Min(Len(selected), input.limit + 1))
         IN  IF CastFails(merged, ps, columns, tableRows)
             THEN [status |-> "INTERNAL_SERVER_ERROR", rows |-> <<>>, nextCursor |-> Undef,
                   merged |-> merged]
             ELSE IF Len(fetched) > input.limit
             THEN [status |-> "ok", rows |-> SubSeq(fetched, 1, Len(fetched) - 1),
                   nextCursor |-> MintCursor(fetched[Len(fetched)], ps), merged |-> merged]
             ELSE [status |-> "ok", rows |-> fetched, nextCursor |-> Undef, merged |-> merged]

\* the response of rowRouter.count to input
CountResponse(input) ==
    IF input.tableId \notin OwnedTables
    THEN [status |-> "NOT_FOUND", count |-> 0, merged |-> Undef]
    ELSE LET merged == CountMerged(input)
             tableRows == TableRows(input.tableId)
         IN  IF CastFails(merged, Undef, columns, tableRows)
             THEN [status |-> "INTERNAL_SERVER_ERROR", count |-> 0, merged |-> merged]
             ELSE [status |-> "ok",
                   count |-> Cardinality({r \in tableRows : WhereSQL(merged, columns, r) = "T"}),
                   merged |-> merged]

RECURSIVE Orderings(_)
\* the sequences that list every element of S once
Orderings(S) ==
    IF S = {} THEN {<<>>}
    ELSE UNION { {<<first>> \o rest : rest \in Orderings(S \ {first})} : first \in S }

\* the results Postgres may give for the page query before LIMIT: the selected
\* rows in any sequence that ORDER BY allows (rows that ORDER BY does not order
\* come in any order)
PageResults(merged, ps, cols, cursor, tableRows) ==
    {seq \in Orderings({r \in tableRows : /\ WhereSQL(merged, cols, r) = "T"
                                          /\ CursorSQL(cursor, ps, cols, r) = "T"}) :
        \A i, j \in 1..Len(seq) : i < j => ~OrderBefore(seq[j], seq[i], ps, cols)}

\* the response of rowRouter.infinite when the page query yields selected
InfiniteResponseOn(input, cursor, selected) ==
    LET merged == InfiniteMerged(input)
        ps == GetPrimarySort(merged.sorts.items)
        fetched == SubSeq(selected, 1, Min(Len(selected), input.limit + 1))
    IN  IF Len(fetched) > input.limit
        THEN [status |-> "ok", rows |-> SubSeq(fetched, 1, Len(fetched) - 1),
              nextCursor |-> MintCursor(fetched[Len(fetched)], ps), merged |-> merged]
        ELSE [status |-> "ok", rows |-> fetched, nextCursor |-> Undef, merged |-> merged]

\* the responses rowRouter.infinite may give to input with the given cursor
InfiniteResponses(input, cursor) ==
    IF input.tableId \notin OwnedTables
    THEN {[status |-> "NOT_FOUND", rows |-> <<>>, nextCursor |-> Undef, merged |-> Undef]}
    ELSE {InfiniteResponseOn(input, cursor, selected) :
            selected \in PageResults(InfiniteMerged(input),
                                     GetPrimarySort(InfiniteMerged(input).sorts.items),
                                     columns, cursor, TableRows(input.tableId))}

-----------------------------------------------------------------------------
(* The client's walk: useInfiniteQuery with getNextPageParam = nextCursor *)

\* all rows returned so far, page after page
RECURSIVE Flatten(_)
Flatten(pages) == IF pages = <<>> THEN <<>> ELSE Head(pages) \o Flatten(Tail(pages))

Returned == Flatten(walk.pages)
ReturnedIds == {Returned[i].id : i \in 1..Len(Returned)}

\* one row.infinite request: the first without cursor, then with the last nextCursor
Infinite ==
    /\ walk.status \in {"idle", "more"}
    /\ \E resp \in {InfiniteResponse(req, walk.cursor)} :
           walk' = [status |-> IF resp.status # "ok" THEN resp.status
                               ELSE IF resp.nextCursor.k = "undef" THEN "done" ELSE "more",
                    cursor |-> resp.nextCursor,
                    sent |-> walk.cursor,
                    merged |-> resp.merged,
                    pages |-> IF resp.status = "ok" THEN Append(walk.pages, resp.rows)
                              ELSE walk.pages]
    /\ UNCHANGED <<rows, columns, viewCfg, nanBind, req, cnt, adders, gen, inserted, updaters, failures,
                 norm, colDel, views, viewSeq, viewOps, edited>>

\* one row.infinite request of the walk, answered with any of the responses the
\* database's ordering allows
Fetch ==
    /\ walk.status \in {"idle", "more"}
    /\ \E resp \in InfiniteResponses(req, walk.cursor) :
           walk' = [status |-> IF resp.status # "ok" THEN resp.status
                               ELSE IF resp.nextCursor.k = "undef" THEN "done" ELSE "more",
                    cursor |-> resp.nextCursor,
                    sent |-> walk.cursor,
                    merged |-> resp.merged,
                    pages |-> IF resp.status = "ok" THEN Append(walk.pages, resp.rows)
                              ELSE walk.pages]
    /\ UNCHANGED <<rows, columns, viewCfg, nanBind, req, cnt, adders, gen, inserted, updaters, failures,
                 norm, colDel, views, viewSeq, viewOps, edited>>

\* the last request sent again with identical arguments (a refetch of the page):
\* its response replaces the page and the nextCursor of the first response
Refetch ==
    /\ walk.status \in {"more", "done"}
    /\ \E resp \in InfiniteResponses(req, walk.sent) :
           walk' = [status |-> IF resp.nextCursor.k = "undef" THEN "done" ELSE "more",
                    cursor |-> resp.nextCursor,
                    sent |-> walk.sent,
                    merged |-> resp.merged,
                    pages |-> [walk.pages EXCEPT ![Len(walk.pages)] = resp.rows]]
    /\ UNCHANGED <<rows, columns, viewCfg, nanBind, req, cnt, adders, gen, inserted, updaters, failures,
                 norm, colDel, views, viewSeq, viewOps, edited>>

\* one row.count request with the same search, filters and viewId
Count ==
    /\ cnt.status = "none"
    /\ cnt' = CountResponse(req)
    /\ UNCHANGED <<rows, columns, viewCfg, nanBind, req, walk, adders, gen, inserted, updaters, failures,
                 norm, colDel, views, viewSeq, viewOps, edited>>

-----------------------------------------------------------------------------
(* rowRouter.addRow and rowRouter.generate100k *)

Adders == 1..NumAdders
RowIds == 1..MaxRows
FreeIds == RowIds \ {r.id : r \in rows}

Max(S) == CHOOSE x \in S : \A y \in S : y <= x

\* row.aggregate({_max: {order}}): (maxOrder._max.order ?? 0)
MaxOrderOrZero(tableId) ==
    IF TableRows(tableId) = {} THEN 0 ELSE Max({r.order : r \in TableRows(tableId)})

EmptyCells == [c \in {} |-> JNull]

\* a mutation call that threw a TRPCError
Failure(call, code) == [call |-> call, code |-> code]

\* no addRow call in flight for a process; no generate100k call in flight
AdderIdle == [pc |-> "idle", tableId |-> "t1", maxOrder |-> 0]
GenIdle == [pc |-> "idle", tableId |-> "t1", cols |-> EmptyCells, order |-> 0, offset |-> 0]

\* what the history keeps of a created row: who created it and where the walk was
Creation(id, by) ==
    [id |-> id, by |-> by, status |-> walk.status, cursor |-> walk.cursor,
     page |-> Len(walk.pages)]

\* addRow up to the await of row.aggregate: ownership check, then read of the max order
AddRowRead(p, tableId) ==
    /\ adders[p].pc = "idle"
    /\ IF tableId \notin OwnedTables
       THEN /\ adders' = [adders EXCEPT ![p] = AdderIdle]
            /\ failures' = failures \cup {Failure("addRow", "NOT_FOUND")}
       ELSE /\ adders' = [adders EXCEPT ![p] = [pc |-> "create", tableId |-> tableId,
                                                 maxOrder |-> MaxOrderOrZero(tableId)]]
            /\ UNCHANGED failures
    /\ UNCHANGED <<rows, columns, viewCfg, nanBind, req, walk, cnt, gen, inserted, updaters,
                 norm, colDel, views, viewSeq, viewOps, edited>>

\* an addRow that gives the new row the largest order itself
AddRowCreateNoIncrement(p) ==
    /\ adders[p].pc = "create"
    /\ Cardinality(rows) < MaxRows
    /\ \E id \in FreeIds :
          /\ rows' = rows \cup {[id |-> id, tableId |-> adders[p].tableId,
                                 order |-> adders[p].maxOrder, cells |-> EmptyCells]}
          /\ inserted' = inserted \cup {Creation(id, "addRow")}
    /\ adders' = [adders EXCEPT ![p] = AdderIdle]
    /\ UNCHANGED <<columns, viewCfg, nanBind, req, walk, cnt, gen, updaters, failures,
                 norm, colDel, views, viewSeq, viewOps, edited>>

\* addRow: row.create with order max + 1 and empty cells
AddRowCreate(p) ==
    /\ adders[p].pc = "create"
    /\ Cardinality(rows) < MaxRows
    /\ \E id \in FreeIds :
          /\ rows' = rows \cup {[id |-> id, tableId |-> adders[p].tableId,
                                 order |-> adders[p].maxOrder + 1, cells |-> EmptyCells]}
          /\ inserted' = inserted \cup {Creation(id, "addRow")}
    /\ adders' = [adders EXCEPT ![p] = AdderIdle]
    /\ UNCHANGED <<columns, viewCfg, nanBind, req, walk, cnt, gen, updaters, failures,
                 norm, colDel, views, viewSeq, viewOps, edited>>

\* faker.number.int and faker.lorem.words: the values a generated cell may take
\* (one number and two texts, among the values the seeded rows hold)
FakerNumbers == {JNum(1)}
FakerWords == {JStr(<<Ch.lowA>>), JStr(<<Ch.lowB>>)}

\* the cells generate100k may give a row: a value for every column, by type
GeneratedCells(cols) ==
    {cells \in [DOMAIN cols -> FakerNumbers \cup FakerWords] :
        \A c \in DOMAIN cols : IF cols[c] = "NUMBER" THEN cells[c] \in FakerNumbers
                               ELSE cells[c] \in FakerWords}

\* generate100k up to the loop: ownership check, columns, max order
GenerateStart(tableId) ==
    /\ gen.pc = "idle"
    /\ IF tableId \notin OwnedTables
       THEN /\ gen' = GenIdle
            /\ failures' = failures \cup {Failure("generate100k", "NOT_FOUND")}
       ELSE /\ gen' = [pc |-> "loop", tableId |-> tableId, cols |-> columns,
                        order |-> MaxOrderOrZero(tableId) + 1, offset |-> 0]
            /\ UNCHANGED failures
    /\ UNCHANGED <<rows, columns, viewCfg, nanBind, req, walk, cnt, adders, inserted, updaters,
                 norm, colDel, views, viewSeq, viewOps, edited>>

\* one iteration of the loop of generate100k: createMany of a batch of GenBatch rows
GenerateBatch ==
    /\ gen.pc = "loop"
    /\ gen.offset < GenTotal
    /\ Cardinality(rows) + GenBatch <= MaxRows
    /\ \E ids \in [0..(GenBatch - 1) -> FreeIds] :
       \E cs \in [0..(GenBatch - 1) -> GeneratedCells(gen.cols)] :
          /\ \A i, j \in 0..(GenBatch - 1) : i # j => ids[i] # ids[j]
          /\ rows' = rows \cup {[id |-> ids[i], tableId |-> gen.tableId,
                                 order |-> gen.order + i, cells |-> cs[i]] :
                                    i \in 0..(GenBatch - 1)}
          /\ inserted' = inserted \cup {Creation(ids[i], "generate100k") : i \in 0..(GenBatch - 1)}
    /\ gen' = IF gen.offset + GenBatch < GenTotal
              THEN [gen EXCEPT !.order = gen.order + GenBatch, !.offset = gen.offset + GenBatch]
              ELSE GenIdle
    /\ UNCHANGED <<columns, viewCfg, nanBind, req, walk, cnt, adders, updaters, failures,
                 norm, colDel, views, viewSeq, viewOps, edited>>

-----------------------------------------------------------------------------
(* rowRouter.updateCell *)

Updaters == 1..NumUpdaters

\* the process of the specifications with one updateCell call in flight at a time
OneUpdater == {1}

\* what the history keeps of a written cell: the row, the column, the value, and
\* whether the walk had returned the row before
Edit(rowId, columnId, value) ==
    [id |-> rowId, columnId |-> columnId, value |-> value, returned |-> rowId \in ReturnedIds]

\* no updateCell call in flight for a process
UpdaterIdle == [pc |-> "idle", rowId |-> 0, columnId |-> "cName", cells |-> EmptyCells,
                nextValue |-> JNull]

\* a nextValue that is the input value as it came
NextValueAsGiven(type, value) == value

\* nextValue: the input value coerced to the column's type
NextValue(type, value) ==
    IF type = "NUMBER"
    THEN IF value.k = "null" \/ (value.k = "str" /\ value.s = <<>>) THEN JNull
         ELSE IF value.k = "str"
              THEN IF JsNumber(value).k = "num" THEN JsNumber(value) ELSE JNull
         ELSE value
    ELSE IF value.k = "null" THEN JNull ELSE JStr(JsString(value))

\* nextCells: { ...cells, [columnId]: nextValue }
NextCells(cells, columnId, nextValue) ==
    [c \in DOMAIN cells \cup {columnId} |-> IF c = columnId THEN nextValue ELSE cells[c]]

\* row.findFirst({id: rowId, table: {base: {userId}}}): the caller's rows with this id
OwnedRows(rowId) == {r \in rows : r.id = rowId /\ r.tableId \in OwnedTables}

\* an updateCell that does not look the column up
UpdateCellReadNoColumnCheck(p, rowId, columnId, value) ==
    /\ updaters[p].pc = "idle"
    /\ IF OwnedRows(rowId) = {}
       THEN /\ failures' = failures \cup {Failure("updateCell", "NOT_FOUND")}
            /\ UNCHANGED updaters
       ELSE /\ updaters' = [updaters EXCEPT ![p] =
                              [pc |-> "write", rowId |-> rowId, columnId |-> columnId,
                               cells |-> Only(OwnedRows(rowId)).cells,
                               nextValue |-> NextValue(ColType(columns, columnId), value)]]
            /\ UNCHANGED failures
    /\ UNCHANGED <<rows, columns, viewCfg, nanBind, req, walk, cnt, adders, gen, inserted,
                 norm, colDel, views, viewSeq, viewOps, edited>>

\* updateCell up to the write: the row (with its cells) and the column are looked
\* up, the value is coerced
UpdateCellRead(p, rowId, columnId, value) ==
    /\ updaters[p].pc = "idle"
    /\ IF OwnedRows(rowId) = {} \/ columnId \notin DOMAIN columns
       THEN /\ failures' = failures \cup {Failure("updateCell", "NOT_FOUND")}
            /\ UNCHANGED updaters
       ELSE /\ updaters' = [updaters EXCEPT ![p] =
                              [pc |-> "write", rowId |-> rowId, columnId |-> columnId,
                               cells |-> Only(OwnedRows(rowId)).cells,
                               nextValue |-> NextValue(columns[columnId], value)]]
            /\ UNCHANGED failures
    /\ UNCHANGED <<rows, columns, viewCfg, nanBind, req, walk, cnt, adders, gen, inserted,
                 norm, colDel, views, viewSeq, viewOps, edited>>

\* an updateCell that writes a cells map holding the new entry alone
UpdateCellWriteNewEntryAlone(p) ==
    /\ updaters[p].pc = "write"
    /\ rows' = {IF r.id = updaters[p].rowId
                THEN [r EXCEPT !.cells = NextCells(EmptyCells, updaters[p].columnId,
                                                   updaters[p].nextValue)]
                ELSE r : r \in rows}
    /\ updaters' = [updaters EXCEPT ![p] = UpdaterIdle]
    /\ edited' = edited \cup {Edit(updaters[p].rowId, updaters[p].columnId,
                                      updaters[p].nextValue)}
    /\ UNCHANGED <<columns, viewCfg, nanBind, req, walk, cnt, adders, gen, inserted, failures,
                 norm, colDel, views, viewSeq, viewOps>>

\* updateCell: row.update with the cells read before, the new value put in
UpdateCellWrite(p) ==
    /\ updaters[p].pc = "write"
    /\ rows' = {IF r.id = updaters[p].rowId
                THEN [r EXCEPT !.cells = NextCells(updaters[p].cells, updaters[p].columnId,
                                                   updaters[p].nextValue)]
                ELSE r : r \in rows}
    /\ updaters' = [updaters EXCEPT ![p] = UpdaterIdle]
    /\ edited' = edited \cup {Edit(updaters[p].rowId, updaters[p].columnId,
                                      updaters[p].nextValue)}
    /\ UNCHANGED <<columns, viewCfg, nanBind, req, walk, cnt, adders, gen, inserted, failures,
                 norm, colDel, views, viewSeq, viewOps>>

-----------------------------------------------------------------------------
(* normalizeViewConfig of the dashboard *)

\* a JSON string given by its text, and a JSON boolean
JWord(w) == [k |-> "word", w |-> w]
JBool(b) == [k |-> "bool", b |-> b]

\* o.name of a value that is not null or undefined: the field of an object,
\* undefined on a string, a number, a boolean or an array
Field(o, name) == IF o.k = "obj" /\ name \in DOMAIN o THEN o[name] ELSE Undef

\* a ?? {}
OrEmptyObject(a) == IF a.k \in {"undef", "null"} THEN [k |-> "obj"] ELSE a

\* typeof v === "string"
IsString(v) == v.k \in {"str", "word"}

\* Boolean(v) of a string v
NonEmptyString(v) == (v.k = "word" /\ v.w # "") \/ (v.k = "str" /\ v.s # <<>>)

\* Array.isArray(v) ? v : []
ArrayOrEmpty(v) == IF v.k = "arr" THEN v.items ELSE <<>>

\* visibilityRaw[id]
VisibilityAt(v, id) == IF v.k = "map" /\ id \in DOMAIN v.m THEN v.m[id] ELSE Undef

\* xs.filter(keep), xs a sequence
RECURSIVE FilterSeq(_, _)
FilterSeq(xs, keep) ==
    IF xs = <<>> THEN <<>>
    ELSE IF Head(xs) \in keep THEN <<Head(xs)>> \o FilterSeq(Tail(xs), keep)
    ELSE FilterSeq(Tail(xs), keep)

\* normalizeViewConfig(config, columnIds): the ViewConfig it returns, or the
\* TypeError of reading a property of a null element of conditions or sorts
NormalizeViewConfig(config, columnIds) ==
    LET cfg == OrEmptyObject(config)
        filtersRaw == OrEmptyObject(Field(cfg, "filters"))
        conditionsRaw == ArrayOrEmpty(Field(filtersRaw, "conditions"))
        sortsRaw == ArrayOrEmpty(Field(cfg, "sorts"))
        conditions == [i \in 1..Len(conditionsRaw) |->
                         LET c == conditionsRaw[i]
                         IN  [columnId |-> IF IsString(Field(c, "columnId")) THEN Field(c, "columnId")
                                           ELSE JWord(""),
                              operator |-> Field(c, "operator"),
                              value |-> Field(c, "value")]]
        sorts == [i \in 1..Len(sortsRaw) |->
                    LET so == sortsRaw[i]
                    IN  [columnId |-> IF IsString(Field(so, "columnId")) THEN Field(so, "columnId")
                                      ELSE JWord(""),
                         direction |-> IF Field(so, "direction") = JWord("desc") THEN "desc" ELSE "asc"]]
        visibilityRaw == OrEmptyObject(Field(cfg, "columnVisibility"))
        rowHeight == Field(cfg, "rowHeight")
    IN  IF \/ \E i \in 1..Len(conditionsRaw) : conditionsRaw[i].k \in {"null", "undef"}
           \/ \E i \in 1..Len(sortsRaw) : sortsRaw[i].k \in {"null", "undef"}
        THEN [k |-> "throw", error |-> "TypeError"]
        ELSE [k |-> "ok",
              search |-> IF IsString(Field(cfg, "search")) THEN Field(cfg, "search") ELSE JNull,
              filters |-> [conjunction |-> IF Field(filtersRaw, "conjunction") = JWord("or")
                                           THEN "or" ELSE "and",
                           conditions |-> FilterSeq(conditions,
                                            {c \in {conditions[i] : i \in 1..Len(conditions)} :
                                                NonEmptyString(c.columnId)})],
              sorts |-> FilterSeq(sorts, {so \in {sorts[i] : i \in 1..Len(sorts)} :
                                             NonEmptyString(so.columnId)}),
              columnVisibility |-> [id \in {columnIds[i] : i \in 1..Len(columnIds)} |->
                                      VisibilityAt(visibilityRaw, id) # JBool(FALSE)],
              rowHeight |-> IF rowHeight \in {JWord("medium"), JWord("tall"), JWord("extra_tall")}
                            THEN rowHeight.w ELSE "short"]

\* no normalizeViewConfig call made yet
NormIdle == [k |-> "idle"]

\* the dashboard normalizes the config of the active view against the table's
\* column ids
Normalize(columnIds) ==
    /\ norm.k = "idle"
    /\ norm' = [k |-> "done", columnIds |-> columnIds,
                result |-> NormalizeViewConfig(viewCfg, columnIds)]
    /\ UNCHANGED <<rows, columns, viewCfg, nanBind, req, walk, cnt, adders, gen, inserted, updaters,
                   failures, colDel, views, viewSeq, viewOps, edited>>

-----------------------------------------------------------------------------
(* columnRouter.delete *)

\* no column.delete call in flight
ColDelIdle == [pc |-> "idle", columnId |-> "cValue"]

\* the primary field of the table (isPrimary), which cannot be deleted
PrimaryColumn == "cName"

\* cells - columnId
WithoutKey(cells, columnId) == [c \in DOMAIN cells \ {columnId} |-> cells[c]]

\* column.delete up to its first write: the column is looked up, the primary
\* field is refused
ColumnDeleteRead(columnId) ==
    /\ colDel.pc = "idle"
    /\ IF columnId \notin DOMAIN columns
       THEN /\ failures' = failures \cup {Failure("column.delete", "NOT_FOUND")}
            /\ UNCHANGED colDel
       ELSE IF columnId = PrimaryColumn
       THEN /\ failures' = failures \cup {Failure("column.delete", "BAD_REQUEST")}
            /\ UNCHANGED colDel
       ELSE /\ colDel' = [pc |-> "strip", columnId |-> columnId]
            /\ UNCHANGED failures
    /\ UNCHANGED <<rows, columns, viewCfg, nanBind, req, walk, cnt, adders, gen, inserted, updaters,
                   norm, views, viewSeq, viewOps, edited>>

\* column.delete: UPDATE "Row" SET cells = cells - columnId WHERE "tableId" = the column's table
ColumnDeleteStrip ==
    /\ colDel.pc = "strip"
    /\ rows' = {IF r.tableId = RowTable
                THEN [r EXCEPT !.cells = WithoutKey(r.cells, colDel.columnId)]
                ELSE r : r \in rows}
    /\ colDel' = [colDel EXCEPT !.pc = "delete"]
    /\ UNCHANGED <<columns, viewCfg, nanBind, req, walk, cnt, adders, gen, inserted, updaters,
                   failures, norm, views, viewSeq, viewOps, edited>>

\* column.delete: column.delete({ where: { id: columnId } })
ColumnDeleteColumn ==
    /\ colDel.pc = "delete"
    /\ columns' = [c \in DOMAIN columns \ {colDel.columnId} |-> columns[c]]
    /\ colDel' = ColDelIdle
    /\ UNCHANGED <<rows, viewCfg, nanBind, req, walk, cnt, adders, gen, inserted, updaters,
                   failures, norm, views, viewSeq, viewOps, edited>>

-----------------------------------------------------------------------------
(* viewRouter create, setDefault, delete *)

ViewProcs == 1..NumViewOps

\* the default views createWithDefaults has created, one with each table: of
\* the caller's two tables and of the other user's table
DefaultViews == {[id |-> "v1", tableId |-> "t1", isDefault |-> TRUE],
                 [id |-> "v2", tableId |-> "t3", isDefault |-> TRUE],
                 [id |-> "v9", tableId |-> "t2", isDefault |-> TRUE]}

\* the ids the database gives to the views view.create inserts, in order
NewViewIds == <<"n1", "n2", "n3", "n4">>

\* the id of no view
MissingViewId == "gone"

\* no view call in flight for a process; outcome is the error its last call
\* threw, "none" when it made no call or the call succeeded
ViewOpIdle == [pc |-> "idle", viewId |-> MissingViewId, tableId |-> RowTable, outcome |-> "none"]

\* the call of a process has thrown
ViewOpThrown(code) == [ViewOpIdle EXCEPT !.outcome = code]

\* ctx.db.view.findFirst({id: viewId, table: {base: {userId}}}): the views found
OwnedViews(viewId) == {v \in views : v.id = viewId /\ v.tableId \in OwnedTables}

\* view.create up to its insert: the table is looked up
ViewCreateRead(p, tableId) ==
    /\ viewOps[p].pc = "idle"
    /\ viewSeq + Cardinality({q \in ViewProcs : viewOps[q].pc = "create"}) <= MaxViewCreates
    /\ viewOps' = [viewOps EXCEPT ![p] =
                      IF tableId \notin OwnedTables
                      THEN ViewOpThrown("NOT_FOUND")
                      ELSE [ViewOpIdle EXCEPT !.pc = "create", !.tableId = tableId]]
    /\ UNCHANGED <<rows, columns, viewCfg, nanBind, req, walk, cnt, adders, gen, inserted, updaters,
                   failures, norm, colDel, views, viewSeq, edited>>

\* view.create: view.create({ data: { tableId, name, isDefault: false, config } })
ViewCreateInsert(p) ==
    /\ viewOps[p].pc = "create"
    /\ views' = views \cup {[id |-> NewViewIds[viewSeq], tableId |-> viewOps[p].tableId,
                             isDefault |-> FALSE]}
    /\ viewSeq' = viewSeq + 1
    /\ viewOps' = [viewOps EXCEPT ![p] = ViewOpIdle]
    /\ UNCHANGED <<rows, columns, viewCfg, nanBind, req, walk, cnt, adders, gen, inserted, updaters,
                   failures, norm, colDel, edited>>

\* view.setDefault up to its transaction: the view is looked up
ViewSetDefaultRead(p, viewId) ==
    /\ viewOps[p].pc = "idle"
    /\ viewOps' = [viewOps EXCEPT ![p] =
                      IF OwnedViews(viewId) = {}
                      THEN ViewOpThrown("NOT_FOUND")
                      ELSE [ViewOpIdle EXCEPT
                               !.pc = "setDefault", !.viewId = viewId,
                               !.tableId = (CHOOSE v \in OwnedViews(viewId) : TRUE).tableId]]
    /\ UNCHANGED <<rows, columns, viewCfg, nanBind, req, walk, cnt, adders, gen, inserted, updaters,
                   failures, norm, colDel, views, viewSeq, edited>>

\* view.setDefault: the transaction of updateMany({tableId}, isDefault false)
\* and update({id}, isDefault true); the update of a view that is gone throws
\* and the transaction writes nothing
ViewSetDefaultTransaction(p) ==
    /\ viewOps[p].pc = "setDefault"
    /\ IF \E v \in views : v.id = viewOps[p].viewId
       THEN /\ views' = {IF v.id = viewOps[p].viewId THEN [v EXCEPT !.isDefault = TRUE]
                         ELSE IF v.tableId = viewOps[p].tableId THEN [v EXCEPT !.isDefault = FALSE]
                         ELSE v : v \in views}
            /\ viewOps' = [viewOps EXCEPT ![p] = ViewOpIdle]
       ELSE /\ UNCHANGED views
            /\ viewOps' = [viewOps EXCEPT ![p] = ViewOpThrown("INTERNAL_SERVER_ERROR")]
    /\ UNCHANGED <<rows, columns, viewCfg, nanBind, req, walk, cnt, adders, gen, inserted, updaters,
                   failures, norm, colDel, viewSeq, edited>>

\* view.delete up to its delete: the view is looked up, the default view is refused
ViewDeleteRead(p, viewId) ==
    /\ viewOps[p].pc = "idle"
    /\ viewOps' = [viewOps EXCEPT ![p] =
                      IF OwnedViews(viewId) = {}
                      THEN ViewOpThrown("NOT_FOUND")
                      ELSE IF (CHOOSE v \in OwnedViews(viewId) : TRUE).isDefault
                      THEN ViewOpThrown("BAD_REQUEST")
                      ELSE [ViewOpIdle EXCEPT !.pc = "delete", !.viewId = viewId]]
    /\ UNCHANGED <<rows, columns, viewCfg, nanBind, req, walk, cnt, adders, gen, inserted, updaters,
                   failures, norm, colDel, views, viewSeq, edited>>

\* view.delete: view.delete({ where: { id: viewId } }); it throws when the view is gone
ViewDeleteDelete(p) ==
    /\ viewOps[p].pc = "delete"
    /\ views' = {v \in views : v.id # viewOps[p].viewId}
    /\ viewOps' = [viewOps EXCEPT ![p] =
                      IF \E v \in views : v.id = viewOps[p].viewId
                      THEN ViewOpIdle ELSE ViewOpThrown("INTERNAL_SERVER_ERROR")]
    /\ UNCHANGED <<rows, columns, viewCfg, nanBind, req, walk, cnt, adders, gen, inserted, updaters,
                   failures, norm, colDel, viewSeq, edited>>

-----------------------------------------------------------------------------
(* Initial states *)

\* the table t1 as tableRouter.createWithDefaults leaves it, its Notes column deleted
DefaultColumns == [c \in {"cName", "cValue"} |-> IF c = "cName" THEN "TEXT" ELSE "NUMBER"]

\* the config createWithDefaults gives the default view
DefaultViewConfig ==
    [k |-> "obj", search |-> JNull,
     filters |-> [k |-> "obj", conjunction |-> "and", conditions |-> [k |-> "arr", items |-> <<>>]],
     sorts |-> [k |-> "arr", items |-> <<[k |-> "obj", columnId |-> "cName", direction |-> "asc"]>>]]

\* the cuids of the rows createWithDefaults creates, in creation order (ids are
\* not ordered like order)
DefaultRowId(i) == <<3, 2, 4>>[i]

\* cells of a row made of a Name cell and a Value cell (Undef: key absent)
Cells(name, value) ==
    [c \in {x \in {"cName"} : name.k # "undef"} \cup {x \in {"cValue"} : value.k # "undef"} |->
        IF c = "cName" THEN name ELSE value]

\* a table of n rows: the DEFAULT_ROWS rows of createWithDefaults, then rows of
\* addRow, with the cells cs[i] that updateCell calls have given them
SeedRowId(i) == IF i <= DEFAULT_ROWS THEN DefaultRowId(i) ELSE IF i = DEFAULT_ROWS + 1 THEN 1 ELSE i

SeedTable(cs) ==
    {[id |-> SeedRowId(i), tableId |-> "t1", order |-> i, cells |-> cs[i]] : i \in 1..Len(cs)}

SeedTables(sizes, profiles) ==
    UNION { {SeedTable(cs) : cs \in [1..n -> profiles]} : n \in sizes }

NoName == Undef
NoValue == Undef
TextA == JStr(<<Ch.lowA>>)
TextB == JStr(<<Ch.lowB>>)
TextEmpty == JStr(<<>>)

\* cells of the rows of the walks: per column two values and two kinds of empty cell
WalkProfiles ==
    { Cells(NoName, JNum(1)), Cells(TextA, JNull), Cells(TextEmpty, JNum(2)), Cells(TextB, NoValue) }

Sorts(columnId, direction) ==
    [k |-> "arr", items |-> <<[columnId |-> columnId, direction |-> direction]>>]

Filters(conjunction, conditions) ==
    [k |-> "filters", conjunction |-> conjunction, conditions |-> conditions]

Cond(columnId, operator, value) ==
    [columnId |-> columnId, operator |-> operator, value |-> value]

Request(tableId, limit, search, filters, sorts, viewId) ==
    [tableId |-> tableId, limit |-> limit, search |-> search, filters |-> filters,
     sorts |-> sorts, viewId |-> viewId]

AllSorts == {Undef} \cup {Sorts(c, d) : c \in {"cName", "cValue"}, d \in {"asc", "desc"}}

\* the requests of the walks with concurrent inserts: every sort, page size 1
WalkRequests ==
    { Request("t1", 1, Undef, Undef, sorts, "none") : sorts \in AllSorts }
    \cup { Request("t2", 1, Undef, Undef, Undef, "none") }

\* the tables of the walks with concurrent inserts
WalkSeeds ==
    { SeedTable(<<Cells(NoName, NoValue), Cells(NoName, NoValue), Cells(NoName, NoValue)>>),
      SeedTable(<<Cells(TextB, JNum(2)), Cells(TextEmpty, JNull), Cells(TextA, JNum(1))>>),
      SeedTable(<<Cells(TextA, JNum(1)), Cells(NoName, NoValue), Cells(TextA, JNum(1))>>) }

WalkIdle == [status |-> "idle", cursor |-> Undef, sent |-> Undef, merged |-> Undef, pages |-> <<>>]

InitClient ==
    /\ walk = WalkIdle
    /\ cnt = [status |-> "none", count |-> 0, merged |-> Undef]
    /\ adders = [p \in Adders |-> AdderIdle]
    /\ gen = GenIdle
    /\ inserted = {}
    /\ updaters = [p \in Updaters |-> UpdaterIdle]
    /\ failures = {}
    /\ norm = NormIdle
    /\ colDel = ColDelIdle
    /\ views = DefaultViews
    /\ viewSeq = 1
    /\ viewOps = [p \in ViewProcs |-> ViewOpIdle]
    /\ edited = {}

InitWalk ==
    /\ rows \in WalkSeeds
    /\ columns = DefaultColumns
    /\ viewCfg = DefaultViewConfig
    /\ nanBind = "NULL"     \* no request of these walks binds a number that can be NaN
    /\ req \in WalkRequests
    /\ InitClient

NextWalk ==
    \/ Infinite
    \/ \E p \in Adders, t \in {RowTable} : AddRowRead(p, t)
    \/ \E p \in Adders : AddRowCreate(p)
    \/ \E t \in {RowTable} : GenerateStart(t)
    \/ GenerateBatch

\* pagination walks with concurrent addRow and generate100k calls
SpecWalk == InitWalk /\ [][NextWalk]_vars

\* the queries of a client against a store nobody writes to
NextQuery ==
    \/ Infinite
    \/ Count

\* the requests of the walks without writes: every sort with page sizes 1 and 2,
\* a filter, the default view, a table of another user
PagesRequests ==
    { Request("t1", limit, Undef, Undef, sorts, "none") : limit \in {1, 2}, sorts \in AllSorts }
    \cup { Request("t1", 1, Undef, Filters("and", <<Cond("cValue", "isNotEmpty", Undef)>>), sorts, "none") :
             sorts \in {Undef, Sorts("cName", "desc")} }
    \cup { Request("t1", 1, Undef, Undef, Undef, "v1"),
           Request("t2", 1, Undef, Undef, Undef, "none") }

InitPages ==
    /\ rows \in SeedTables(DEFAULT_ROWS..MaxRows, WalkProfiles)
    /\ columns = DefaultColumns
    /\ viewCfg = DefaultViewConfig
    /\ nanBind = "NULL"     \* no request of these walks binds a number that can be NaN
    /\ req \in PagesRequests
    /\ InitClient

\* walks and counts over every small table, with no writes
SpecPages == InitPages /\ [][NextQuery]_vars

\* the cursors a client may send with its first request: ids of rows and of no
\* row, and for the sorted requests the values a cell of the column's type holds
CursorIds == {0, 2, 3, 9}
CursorOrders == {0, 2, 3}
CursorValues(type) ==
    IF type = "NUMBER" THEN {JNull, JNum(0), JNum(1), JNum(2)} ELSE {JNull, TextA, TextB}

StartCursors(r) ==
    IF r.sorts.k = "undef"
    THEN {[k |-> "cursor", id |-> id, order |-> JNum(o), sortValue |-> Undef] :
            id \in CursorIds, o \in CursorOrders}
    ELSE {[k |-> "cursor", id |-> id, order |-> Undef, sortValue |-> v] :
            id \in CursorIds, v \in CursorValues(ColType(DefaultColumns, r.sorts.items[1].columnId))}

CursorRequests ==
    { Request("t1", limit, Undef, Undef, sorts, "none") : limit \in {1, 2}, sorts \in AllSorts }
    \cup { Request("t1", 1, Undef, Filters("and", <<Cond("cName", "isNotEmpty", Undef)>>),
                   Sorts("cValue", "desc"), "none") }

InitCursor ==
    /\ rows \in SeedTables({DEFAULT_ROWS, DEFAULT_ROWS + 1}, WalkProfiles)
    /\ columns = DefaultColumns
    /\ viewCfg = DefaultViewConfig
    /\ nanBind = "NULL"     \* the cursor values are numbers for a NUMBER column
    /\ req \in CursorRequests
    /\ \E c \in StartCursors(req) : walk = [WalkIdle EXCEPT !.cursor = c]
    /\ cnt = [status |-> "none", count |-> 0, merged |-> Undef]
    /\ adders = [p \in Adders |-> AdderIdle]
    /\ gen = GenIdle
    /\ inserted = {}
    /\ updaters = [p \in Updaters |-> UpdaterIdle]
    /\ failures = {}
    /\ norm = NormIdle
    /\ colDel = ColDelIdle
    /\ views = DefaultViews
    /\ viewSeq = 1
    /\ viewOps = [p \in ViewProcs |-> ViewOpIdle]
    /\ edited = {}

NextCursor ==
    Infinite

\* walks that start from a cursor the client supplies
SpecCursor == InitCursor /\ [][NextCursor]_vars

\* JSON values a View.config may hold in its search, filters and sorts keys:
\* absent, well-formed, and of a shape the schema rejects
JCond(columnId, operator, value) ==
    [k |-> "obj", columnId |-> columnId, operator |-> operator, value |-> value]

JFilters(conjunction, conditions) ==
    [k |-> "obj", conjunction |-> conjunction, conditions |-> [k |-> "arr", items |-> conditions]]

JSorts(columnId, direction) ==
    [k |-> "arr", items |-> <<[k |-> "obj", columnId |-> columnId, direction |-> direction]>>]

ViewSearches == {Undef, JNull, TextA, JNum(1)}
ViewFilters == {Undef, JFilters("and", <<JCond("cValue", "isNotEmpty", Undef)>>), TextEmpty}
ViewSorts == {Undef, JSorts("cValue", "desc"), JSorts("cValue", "up"), JNum(1)}

\* the JSON values of View.config, a Json column the handlers read with
\* safeParse: non-objects and objects
ViewConfigs ==
    {JNull, TextA}
    \cup {[k |-> "obj", search |-> se, filters |-> fi, sorts |-> so] :
            se \in ViewSearches, fi \in ViewFilters, so \in ViewSorts}

\* requests with and without a view, each field sent or not
ViewRequests ==
    { Request("t1", 2, se, fi, so, v) :
        se \in {Undef, TextB},
        fi \in {Undef, Filters("and", <<Cond("cName", "isNotEmpty", Undef)>>)},
        so \in {Undef, Sorts("cName", "asc")},
        v \in {"none", "v1", "vX"} }
    \cup { Request("t2", 2, Undef, Undef, Undef, "v1") }

InitView ==
    /\ rows \in WalkSeeds
    /\ columns = DefaultColumns
    /\ viewCfg \in ViewConfigs
    /\ nanBind = "NULL"     \* no filter of these requests binds a number
    /\ req \in ViewRequests
    /\ InitClient

\* walks and counts through a view whose persisted config is any JSON value
SpecView == InitView /\ [][NextQuery]_vars

TextUpA == JStr(<<Ch.upA>>)

\* tables whose cells cover absent, null, empty, text in both cases and numbers
FilterSeeds ==
    { SeedTable(<<Cells(TextA, JNum(1)), Cells(TextB, JNum(2)), Cells(TextEmpty, JNull),
                  Cells(NoName, NoValue), Cells(TextUpA, JNum(2))>>),
      SeedTable(<<Cells(JNull, JNum(1)), Cells(TextA, NoValue), Cells(TextB, JNull)>>) }

\* every condition the input schema accepts on the two columns: every operator
\* of the enum, with a text or a number as value where the operator reads one
FilterConditions ==
    {Cond(c, op, v) : c \in {"cName", "cValue"},
                      op \in FilterOperators \ {"isEmpty", "isNotEmpty"},
                      v \in {TextA, JNum(1)}}
    \cup {Cond(c, op, Undef) : c \in {"cName", "cValue"}, op \in {"isEmpty", "isNotEmpty"}}

TextPercent == JStr(<<Ch.percent>>)
TextUnderscore == JStr(<<Ch.underscore>>)

\* conditions whose value is omitted, null, empty, a wildcard of LIKE, or in
\* another case than the cells
EdgeConditions ==
    {Cond(c, op, v) : c \in {"cName", "cValue"},
                      op \in FilterOperators \ {"isEmpty", "isNotEmpty"},
                      v \in {Undef, JNull, TextEmpty, TextPercent, TextUnderscore, TextUpA}}

\* requests with two conditions and with one, one page holding every match
FilterRequests ==
    { Request("t1", LIMIT_MAX, Undef, Filters(conj, <<c1, c2>>), Undef, "none") :
        conj \in {"and", "or"}, c1 \in FilterConditions, c2 \in FilterConditions }
    \cup { Request("t1", LIMIT_MAX, Undef, Filters(conj, <<c>>), Undef, "none") :
              conj \in {"and", "or"}, c \in FilterConditions \cup EdgeConditions }

InitFilter ==
    /\ rows \in FilterSeeds
    /\ columns = DefaultColumns
    /\ viewCfg = DefaultViewConfig
    /\ nanBind \in {"NaN", "NULL"}
    /\ req \in FilterRequests
    /\ InitClient

\* queries with two filter conditions
SpecFilter == InitFilter /\ [][NextQuery]_vars

\* search strings: letters in both cases, spaces around, a digit, the wildcards
\* of LIKE, two characters, and spaces only
SearchStrings ==
    { TextA, TextUpA, TextB, JStr(<<Ch.space, Ch.lowA, Ch.space>>), JStr(Digits(1)),
      TextPercent, TextUnderscore, JStr(<<Ch.lowA, Ch.lowB>>), JStr(<<Ch.lowB, Ch.underscore>>),
      JStr(<<Ch.space, Ch.space>>), TextEmpty }

SearchRequests ==
    { Request("t1", LIMIT_MAX, q, Undef, Undef, "none") : q \in SearchStrings \cup {JNull} }

\* tables with texts of one and two characters, numbers, and rows whose cells
\* are all absent, null or ''
SearchSeeds ==
    FilterSeeds \cup WalkSeeds
    \cup { SeedTable(<<Cells(JStr(<<Ch.upA, Ch.lowB>>), NoValue), Cells(TextEmpty, JNull),
                       Cells(JStr(<<Ch.lowB, Ch.lowA>>), JNum(1)), Cells(JNull, NoValue)>>) }

InitSearch ==
    /\ rows \in SearchSeeds
    /\ columns = DefaultColumns
    /\ viewCfg = DefaultViewConfig
    /\ nanBind = "NULL"     \* a search binds no number
    /\ req \in SearchRequests
    /\ InitClient

\* queries with a search string
SpecSearch == InitSearch /\ [][NextQuery]_vars

\* requests of the refetched walks: every sort, page sizes 1 and 2
RefetchRequests ==
    { Request("t1", limit, Undef, Undef, sorts, "none") : limit \in {1, 2}, sorts \in AllSorts }
    \cup { Request("t2", 1, Undef, Undef, Undef, "none") }

InitRefetch ==
    /\ rows \in SeedTables({DEFAULT_ROWS}, WalkProfiles) \cup WalkSeeds
    /\ columns = DefaultColumns
    /\ viewCfg = DefaultViewConfig
    /\ nanBind = "NULL"     \* no request of these walks binds a number that can be NaN
    /\ req \in RefetchRequests
    /\ InitClient

NextRefetch ==
    \/ Fetch
    \/ Refetch

\* walks whose requests are sent twice, over a database free to order the rows
\* that ORDER BY leaves unordered
SpecRefetch == InitRefetch /\ [][NextRefetch]_vars

\* a row of a table of another user, and the id of no row; the caller's table
\* starts with room for one more row
ForeignRow == [id |-> 0, tableId |-> "t2", order |-> 1, cells |-> EmptyCells]
MissingRowId == MaxRows + 1

\* the requests against the caller's table and against the other user's
NotFoundRequests ==
    { Request(t, MaxRows, Undef, Undef, Undef, "none") : t \in {RowTable, ForeignRow.tableId} }

InitNotFound ==
    /\ rows = SeedTable([i \in 1..(MaxRows - 2) |->
                            IF i = 2 THEN Cells(NoName, NoValue) ELSE Cells(TextB, JNum(2))])
              \cup {ForeignRow}
    /\ columns = DefaultColumns
    /\ viewCfg = DefaultViewConfig
    /\ nanBind = "NULL"     \* no request of these calls binds a number that can be NaN
    /\ req \in NotFoundRequests
    /\ InitClient

NextNotFound ==
    \/ Infinite
    \/ Count
    \/ \E p \in Adders, t \in {RowTable, ForeignRow.tableId} : AddRowRead(p, t)
    \/ \E p \in Adders : AddRowCreate(p)
    \/ \E t \in {RowTable, ForeignRow.tableId} : GenerateStart(t)
    \/ GenerateBatch
    \/ \E p \in Updaters, id \in {DefaultRowId(1), ForeignRow.id, MissingRowId},
          c \in {"cName", "cGone"} : UpdateCellRead(p, id, c, TextA)
    \/ \E p \in Updaters : UpdateCellWrite(p)

\* every procedure of the row router, called on what the caller owns and on
\* what it does not own or does not exist
SpecNotFound == InitNotFound /\ [][NextNotFound]_vars

\* JSON values a config handed to normalizeViewConfig may hold in each field:
\* absent, null, of the wrong type, well-formed, and lists with elements that
\* are null or not objects
NormCondition(columnId) ==
    [k |-> "obj", columnId |-> columnId, operator |-> JWord("isEmpty"), value |-> Undef]

NormSort(columnId, direction) ==
    [k |-> "obj", columnId |-> columnId, direction |-> direction]

NormArray(items) == [k |-> "arr", items |-> items]

NormConditionLists ==
    { Undef, JWord("x"),
      NormArray(<<>>),
      NormArray(<<NormCondition(JWord("cName"))>>),
      NormArray(<<NormCondition(JWord("")), NormCondition(JNum(1)), NormCondition(JWord("cValue"))>>),
      NormArray(<<JNum(1), JWord("x"), [k |-> "obj"]>>),
      NormArray(<<NormCondition(JWord("cName")), JNull>>) }

NormFilters ==
    {Undef, JNull, JWord("x")}
    \cup {[k |-> "obj", conjunction |-> cj, conditions |-> cs] :
            cj \in {Undef, JWord("and"), JWord("or"), JNum(1)}, cs \in NormConditionLists}

NormSorts ==
    { Undef, JNull, JNum(1),
      NormArray(<<NormSort(JWord("cName"), JWord("desc"))>>),
      NormArray(<<NormSort(JWord("cName"), JWord("up")), NormSort(JNull, JWord("asc")),
                  NormSort(JWord(""), Undef)>>),
      NormArray(<<JWord("cName"), NormArray(<<>>)>>),
      NormArray(<<JNull>>) }

NormVisibilities ==
    { Undef, JNull, JWord("x"),
      [k |-> "map", m |-> [c \in {"cName"} |-> JBool(FALSE)]],
      [k |-> "map", m |-> [c \in {"cValue", "cGone"} |-> IF c = "cGone" THEN JBool(FALSE) ELSE JNum(0)]] }

NormRowHeights == {Undef, JWord("short"), JWord("tall"), JWord("huge"), JNum(1)}

NormConfigs ==
    {Undef, JNull, JWord("x"), JNum(1), JBool(TRUE), NormArray(<<>>)}
    \cup {[k |-> "obj", search |-> se, filters |-> fi, sorts |-> so,
           columnVisibility |-> vi, rowHeight |-> rh] :
            se \in {Undef, JNull, TextA, JNum(1)}, fi \in NormFilters, so \in NormSorts,
            vi \in NormVisibilities, rh \in NormRowHeights}

\* columnIds: the ids of the columns of the active table
NormColumnIds == {<<>>, <<"cName">>, <<"cName", "cValue">>}

InitNormalize ==
    /\ rows = SeedTable(<<Cells(NoName, NoValue), Cells(NoName, NoValue), Cells(NoName, NoValue)>>)
    /\ columns = DefaultColumns
    /\ viewCfg \in NormConfigs
    /\ nanBind = "NULL"
    /\ req = Request("t1", 1, Undef, Undef, Undef, "v1")
    /\ InitClient

NextNormalize ==
    \E columnIds \in NormColumnIds : Normalize(columnIds)

\* normalizeViewConfig applied to any JSON value and any list of column ids
SpecNormalize == InitNormalize /\ [][NextNormalize]_vars

\* an updateCell while fewer than MaxEdits cells have been written
UpdateCellBounded(p, rowId, columnId, value) ==
    /\ Cardinality(edited) < MaxEdits
    /\ UpdateCellRead(p, rowId, columnId, value)

\* tables whose rows hold a Value cell, no cell, or a Name cell only
ColumnSeeds ==
    { SeedTable(<<Cells(TextA, JNum(1)), Cells(NoName, NoValue), Cells(TextB, NoValue)>>),
      SeedTable(<<Cells(NoName, NoValue), Cells(NoName, JNum(2)), Cells(NoName, NoValue)>>) }

InitColumns ==
    /\ rows \in ColumnSeeds
    /\ columns = DefaultColumns
    /\ viewCfg = DefaultViewConfig
    /\ nanBind = "NULL"     \* no request of these calls binds a number
    /\ req = Request("t1", MaxRows, Undef, Undef, Undef, "none")
    /\ InitClient

NextColumns ==
    \/ \E p \in OneUpdater, id \in {DefaultRowId(1), DefaultRowId(2)}, c \in {"cName", "cValue"},
          value \in {TextA, JNum(2), JNull} : UpdateCellBounded(p, id, c, value)
    \/ \E p \in OneUpdater : UpdateCellWrite(p)
    \/ \E c \in {"cName", "cValue", "cGone"} : ColumnDeleteRead(c)
    \/ ColumnDeleteStrip
    \/ ColumnDeleteColumn

\* updateCell calls and a column.delete, every statement a step of its own
SpecColumns == InitColumns /\ [][NextColumns]_vars

\* no mutation call is between two of its statements
Quiet ==
    /\ gen.pc = "idle"
    /\ \A p \in Adders : adders[p].pc = "idle"
    /\ \A p \in Updaters : updaters[p].pc = "idle"

\* the table as createWithDefaults leaves it after table.create (no row yet)
\* and after row.createMany, and with a row of an earlier addRow
SequentialSeeds ==
    { {},
      SeedTable(<<Cells(NoName, NoValue), Cells(NoName, NoValue), Cells(NoName, NoValue)>>),
      SeedTable(<<Cells(TextA, JNum(1)), Cells(NoName, NoValue), Cells(TextB, JNum(2))>>),
      SeedTable(<<Cells(TextA, NoValue), Cells(NoName, NoValue), Cells(NoName, NoValue),
                  Cells(NoName, NoValue)>>) }

InitSequential ==
    /\ rows \in SequentialSeeds
    /\ columns = DefaultColumns
    /\ viewCfg = DefaultViewConfig
    /\ nanBind = "NULL"     \* no request of these calls binds a number
    /\ req = Request("t1", MaxRows, Undef, Undef, Undef, "none")
    /\ InitClient

\* an addRow, a generate100k, begun while no other call is under way
AddRowAlone(p, tableId) == Quiet /\ AddRowRead(p, tableId)
GenerateAlone(tableId) == Quiet /\ GenerateStart(tableId)

NextSequential ==
    \/ \E p \in Adders, t \in {RowTable} : AddRowAlone(p, t)
    \/ \E p \in Adders : AddRowCreate(p)
    \/ \E t \in {RowTable} : GenerateAlone(t)
    \/ GenerateBatch

\* addRow and generate100k calls, each begun only when no other call is under way
SpecSequential == InitSequential /\ [][NextSequential]_vars

\* the requests of the walks that are followed to their end: every sort with
\* page sizes 1 and 2, and a filter that some tables match with no row
TerminateRequests ==
    { Request("t1", limit, Undef, Undef, sorts, "none") : limit \in {1, 2}, sorts \in AllSorts }
    \cup { Request("t1", 1, Undef, Filters("and", <<Cond("cValue", "isNotEmpty", Undef)>>), sorts, "none") :
             sorts \in {Undef, Sorts("cName", "desc")} }

InitTerminate ==
    /\ rows \in WalkSeeds \cup FilterSeeds
    /\ columns = DefaultColumns
    /\ viewCfg = DefaultViewConfig
    /\ nanBind = "NULL"     \* no request of these walks binds a number that can be NaN
    /\ req \in TerminateRequests
    /\ InitClient

NextTerminate ==
    Infinite

\* a client that goes on fetching the next page as long as there is a
\* nextCursor, against a store nobody writes to
SpecTerminate == InitTerminate /\ [][NextTerminate]_vars /\ WF_vars(Infinite)

\* the requests of the walks sorted on the Value column
EditRequests ==
    { Request("t1", limit, Undef, Undef, Sorts("cValue", d), "none") :
        limit \in {1, 2}, d \in {"asc", "desc"} }

\* tables whose Value cells are 1, 2 and absent
EditSeeds ==
    { SeedTable(<<Cells(TextA, JNum(1)), Cells(TextB, JNum(2)), Cells(NoName, NoValue)>>),
      SeedTable(<<Cells(NoName, JNum(2)), Cells(NoName, JNum(1)), Cells(NoName, JNum(2)),
                  Cells(NoName, JNum(1))>>) }

InitEdit ==
    /\ rows \in EditSeeds
    /\ columns = DefaultColumns
    /\ viewCfg = DefaultViewConfig
    /\ nanBind = "NULL"     \* no request of these walks binds a number that can be NaN
    /\ req \in EditRequests
    /\ InitClient

\* an updateCell on the Value cell of a row, while fewer than MaxEdits cells
\* have been written
EditSortCell(p, rowId, value) ==
    /\ Cardinality(edited) < MaxEdits
    /\ UpdateCellRead(p, rowId, "cValue", value)

NextEdit ==
    \/ Infinite
    \/ \E p \in OneUpdater, id \in {DefaultRowId(i) : i \in 1..DEFAULT_ROWS}, value \in {JNum(0), JNum(3)} :
          EditSortCell(p, id, value)
    \/ \E p \in OneUpdater : UpdateCellWrite(p)

\* walks sorted on a column while updateCell calls change cells of that column
SpecEdit == InitEdit /\ [][NextEdit]_vars

\* tables whose first rows hold both cells, one cell, or none
CellSeeds ==
    { SeedTable(<<Cells(TextB, JNum(1)), Cells(NoName, NoValue), Cells(NoName, NoValue)>>),
      SeedTable(<<Cells(NoName, JNum(1)), Cells(TextB, NoValue), Cells(NoName, NoValue)>>) }

InitLost ==
    /\ rows \in CellSeeds
    /\ columns = DefaultColumns
    /\ viewCfg = DefaultViewConfig
    /\ nanBind = "NULL"     \* no request of these calls binds a number
    /\ req = Request("t1", MaxRows, Undef, Undef, Undef, "none")
    /\ InitClient

\* an updateCell on a cell that no call has written and no call in flight is
\* about to write
UpdateCellFirst(p, rowId, columnId, value) ==
    /\ \A e \in edited : ~(e.id = rowId /\ e.columnId = columnId)
    /\ \A q \in Updaters :
           ~(updaters[q].pc = "write" /\ updaters[q].rowId = rowId /\ updaters[q].columnId = columnId)
    /\ UpdateCellRead(p, rowId, columnId, value)

NextLost ==
    \/ \E p \in Updaters, id \in {DefaultRowId(1), DefaultRowId(2)}, c \in {"cName", "cValue"},
          value \in {TextA, JNum(2)} : UpdateCellFirst(p, id, c, value)
    \/ \E p \in Updaters : UpdateCellWrite(p)

\* updateCell calls on different cells, their reads and writes interleaved
SpecLost == InitLost /\ [][NextLost]_vars

TextOne == JStr(<<Ch.zero + 1>>)

\* the values updateCell accepts (string, number or null): null, '', a text
\* that is no number, a text that is one, a number
CellInputs == {JNull, TextEmpty, TextA, TextOne, JNum(2)}

InitStore ==
    /\ rows = SeedTable([i \in 1..(MaxRows - 2) |-> Cells(NoName, NoValue)])
    /\ columns = DefaultColumns
    /\ viewCfg = DefaultViewConfig
    /\ nanBind = "NULL"     \* no request of these calls binds a number
    /\ req = Request("t1", MaxRows, Undef, Undef, Undef, "none")
    /\ InitClient

NextStore ==
    \/ \E p \in Adders, t \in {RowTable} : AddRowRead(p, t)
    \/ \E p \in Adders : AddRowCreate(p)
    \/ \E t \in {RowTable} : GenerateStart(t)
    \/ GenerateBatch
    \/ \E p \in OneUpdater, id \in {DefaultRowId(1)}, c \in {"cName", "cValue"},
          value \in CellInputs : UpdateCellBounded(p, id, c, value)
    \/ \E p \in OneUpdater : UpdateCellWrite(p)

\* the calls that write cells, from the table createWithDefaults creates
SpecStore == InitStore /\ [][NextStore]_vars

-----------------------------------------------------------------------------
(* Claims about walks with concurrent inserts (SpecWalk) *)

\* the search and filter predicates of the walk's request hold of row r
Matches(r) == WhereSQL(InfiniteMerged(req), columns, r) = "T"

\* the primary sort of the walk's request
WalkSort == GetPrimarySort(InfiniteMerged(req).sorts.items)

RowOfId(id) == CHOOSE r \in rows : r.id = id

\* C4: in one walk no row id is returned on two pages (or twice on one page),
\* with no writes and with addRow / generate100k rows created between the pages.
C4_NoRowReturnedTwice ==
    \A listed \in {Returned} :
        \A i, j \in 1..Len(listed) : i # j => listed[i].id # listed[j].id

\* a walk of three pages or more, a row created after its first page and
\* returned by a later page
C4_Witness ==
    /\ Len(walk.pages) >= 3
    /\ \E x \in inserted : x.status = "more" /\ x.page >= 1 /\ x.id \in ReturnedIds

\* C5: a row addRow creates after page k was returned and before page k+1 is
\* requested, which matches the predicates and sorts after page k's nextCursor,
\* is returned by page k+1 or a later page of the walk.
C5_InsertedRowNotSkipped ==
    walk.status = "done" =>
        \A x \in inserted :
            ( /\ x.by = "addRow"
              /\ x.status = "more"
              /\ Matches(RowOfId(x.id))
              /\ OrderBefore(RowOfId(x.cursor.id), RowOfId(x.id), WalkSort, columns) )
            => x.id \in ReturnedIds

\* C6: no two rows of one table have the same order, in every reachable state.
C6_OrderUniquePerTable ==
    \A r1, r2 \in rows : (r1.tableId = r2.tableId /\ r1.order = r2.order) => r1.id = r2.id

-----------------------------------------------------------------------------
(* Claims about walks and counts with no writes (SpecPages) *)

\* C1: a walk followed until nextCursor is undefined has returned every row of
\* the table that satisfies the search and filter predicates.
C1_WalkReturnsEveryMatch ==
    walk.status = "done" => ReturnedIds = {r.id : r \in {x \in TableRows(req.tableId) : Matches(x)}}

\* C2: row.count returns the number of rows the whole walk returned.
C2_CountEqualsWalkTotal ==
    (walk.status = "done" /\ cnt.status = "ok") => cnt.count = Len(Returned)

\* the cell of row r under column c, null when the key is absent
CellOf(r, c) == IF c \in DOMAIN r.cells THEN r.cells[c] ELSE JNull

\* a cell that is absent, null or the empty string
IsEmptyCell(v) == v.k = "null" \/ (v.k = "str" /\ v.s = <<>>)

\* u before v, for two non-empty cells of one column: numbers by value, texts as text
ValueLess(u, v) == IF u.k = "num" THEN u.n < v.n ELSE TextLess(u.s, v.s)

IdBeyond(id, cid, dir) == IF dir = "desc" THEN id < cid ELSE id > cid

\* the order the walk is to follow: (order, id) without a sort; with a sort on
\* column c the non-empty cells first by value in the direction, then the empty
\* ones, equal keys by id in the direction
ListedBefore(a, b, ps) ==
    IF ps.k = "undef"
    THEN a.order < b.order \/ (a.order = b.order /\ a.id < b.id)
    ELSE LET va == CellOf(a, ps.columnId)
             vb == CellOf(b, ps.columnId)
         IN  IF IsEmptyCell(va) \/ IsEmptyCell(vb)
             THEN IF IsEmptyCell(va) /\ IsEmptyCell(vb) THEN IdBeyond(b.id, a.id, ps.direction)
                  ELSE IsEmptyCell(vb)
             ELSE IF va = vb THEN IdBeyond(b.id, a.id, ps.direction)
             ELSE IF ps.direction = "desc" THEN ValueLess(vb, va) ELSE ValueLess(va, vb)

\* C9: the rows of a walk, within a page and across its pages, come in the
\* order ListedBefore: NULLS LAST for asc and desc, ties by id in the direction,
\* and (order, id) ascending when there is no sort.
C9_WalkInListedOrder ==
    \A listed \in {Returned}, ps \in {WalkSort} :
        \A i, j \in 1..Len(listed) : i < j => ListedBefore(listed[i], listed[j], ps)

\* a finished descending walk of three pages that returned two different values
\* and then an empty cell
C9_Witness ==
    /\ walk.status = "done"
    /\ WalkSort.k = "sort"
    /\ WalkSort.direction = "desc"
    /\ Len(walk.pages) >= 3
    /\ \E i, j, l \in 1..Len(Returned) :
          /\ i < j /\ j < l
          /\ ~IsEmptyCell(CellOf(Returned[i], WalkSort.columnId))
          /\ ~IsEmptyCell(CellOf(Returned[j], WalkSort.columnId))
          /\ CellOf(Returned[i], WalkSort.columnId) # CellOf(Returned[j], WalkSort.columnId)
          /\ IsEmptyCell(CellOf(Returned[l], WalkSort.columnId))

-----------------------------------------------------------------------------
(* Claims about the page after a cursor (SpecCursor) *)

\* row r lies strictly after the position of cursor c
StrictlyAfter(r, c, ps) ==
    IF ps.k = "undef"
    THEN r.order > c.order.n \/ (r.order = c.order.n /\ r.id > c.id)
    ELSE LET key == CellOf(r, ps.columnId)
         IN  IF c.sortValue.k = "null"
             THEN IsEmptyCell(key) /\ IdBeyond(r.id, c.id, ps.direction)
             ELSE \/ IsEmptyCell(key)
                  \/ /\ ~IsEmptyCell(key)
                     /\ \/ key = c.sortValue /\ IdBeyond(r.id, c.id, ps.direction)
                        \/ /\ key # c.sortValue
                           /\ IF ps.direction = "desc" THEN ValueLess(key, c.sortValue)
                              ELSE ValueLess(c.sortValue, key)

\* the matching rows strictly after the cursor of the last request
AfterSent ==
    UNION { {r \in TableRows(req.tableId) :
                WhereSQL(merged, columns, r) = "T" /\ StrictlyAfter(r, walk.sent, ps)} :
            merged \in {InfiniteMerged(req)}, ps \in {WalkSort} }

LastPage == walk.pages[Len(walk.pages)]

\* C10: the page returned for a request with cursor c is the first
\* min(limit, n) rows, in the listed order, of the n matching rows strictly
\* after c.
C10_PageIsNextRowsAfterCursor ==
    (walk.sent.k = "cursor" /\ walk.status \in {"more", "done"}) =>
        \A after \in {AfterSent}, page \in {LastPage}, ps \in {WalkSort} :
            /\ Len(page) = Min(req.limit, Cardinality(after))
            /\ \A i \in 1..Len(page) : page[i] \in after
            /\ \A i, j \in 1..Len(page) : i < j => ListedBefore(page[i], page[j], ps)
            /\ \A r \in after :
                  (\A i \in 1..Len(page) : page[i] # r) =>
                      \A i \in 1..Len(page) : ListedBefore(page[i], r, ps)

\* the first page of a walk started from a cursor with a value: a page of limit
\* rows cut from more rows, which holds a row with an empty sort cell
C10_Witness ==
    /\ walk.sent.k = "cursor"
    /\ walk.status = "more"
    /\ Len(walk.pages) = 1
    /\ WalkSort.k = "sort"
    /\ walk.sent.sortValue.k \in {"num", "str"}
    /\ Cardinality(AfterSent) > req.limit
    /\ \E i \in 1..Len(LastPage) : IsEmptyCell(CellOf(LastPage[i], WalkSort.columnId))

-----------------------------------------------------------------------------
(* Claims about the view merge (SpecView) *)

\* C3: when the request names a view whose persisted config parses, the search,
\* filters and sorts that infinite and count work with are the request's values
\* for every field the request supplies.
C3_RequestOverridesWin ==
    /\ ( /\ walk.status \in {"more", "done"}
         /\ FindViewConfig(req.viewId).found
         /\ InfiniteConfigParses(viewCfg) ) =>
            /\ req.search.k # "undef" => walk.merged.search = req.search
            /\ req.filters.k # "undef" => walk.merged.filters = req.filters
            /\ req.sorts.k # "undef" => walk.merged.sorts = req.sorts
    /\ ( /\ cnt.status = "ok"
         /\ FindViewConfig(req.viewId).found
         /\ CountConfigParses(viewCfg) ) =>
            /\ req.search.k # "undef" => cnt.merged.search = req.search
            /\ req.filters.k # "undef" => cnt.merged.filters = req.filters

\* C7: the number row.count returns is the number of rows that satisfy the
\* WHERE predicate row.infinite builds for the same arguments without a cursor,
\* whatever JSON value the view's config holds.
C7_CountSelectsListedRows ==
    cnt.status = "ok" =>
        cnt.count = Cardinality({r \in TableRows(req.tableId) : Matches(r)})

\* the search, filters and sorts of the request alone: what it sends, and for
\* what it omits no search, no condition joined by and, no sort
RequestLevel ==
    [search |-> IF req.search.k = "str" THEN req.search ELSE JNull,
     filters |-> IF req.filters.k = "undef"
                 THEN [k |-> "filters", conjunction |-> "and", conditions |-> <<>>]
                 ELSE req.filters,
     sorts |-> IF req.sorts.k = "undef" THEN [k |-> "arr", items |-> <<>>] ELSE req.sorts]

\* the view of the request is found and row.infinite cannot parse its config
InfiniteConfigMalformed ==
    /\ req.tableId \in OwnedTables
    /\ FindViewConfig(req.viewId).found
    /\ ~InfiniteConfigParses(viewCfg)

\* the view of the request is found and row.count cannot parse its config
CountConfigMalformed ==
    /\ req.tableId \in OwnedTables
    /\ FindViewConfig(req.viewId).found
    /\ ~CountConfigParses(viewCfg)

\* C20: when the config of the request's view does not parse, row.infinite and
\* row.count do not fail; they answer from the request's own search, filters
\* and sorts (no search, an empty and-filter and the (order, id) ordering where
\* the request omits them), as they answer the same request sent without a view.
C20_MalformedConfigFallsBack ==
    /\ (walk.status # "idle" /\ InfiniteConfigMalformed) =>
           /\ walk.status \in {"more", "done"}
           /\ walk.merged = RequestLevel
           /\ req.sorts.k = "undef" => GetPrimarySort(walk.merged.sorts.items) = Undef
           /\ \A resp \in {InfiniteResponse([req EXCEPT !.viewId = "none"], walk.sent)} :
                  /\ resp.rows = walk.pages[Len(walk.pages)]
                  /\ resp.nextCursor = walk.cursor
    /\ (cnt.status # "none" /\ CountConfigMalformed) =>
           /\ cnt.status = "ok"
           /\ cnt.merged = [search |-> RequestLevel.search, filters |-> RequestLevel.filters]
           /\ cnt.count = CountResponse([req EXCEPT !.viewId = "none"]).count

\* a view whose config is an object with a sorts key the schema rejects, read
\* by a request that sends a search and a filter of its own: page and count
\* are both answered
C20_Witness ==
    /\ InfiniteConfigMalformed
    /\ CountConfigMalformed
    /\ viewCfg.k = "obj"
    /\ req.search.k = "str"
    /\ req.filters.k # "undef"
    /\ req.sorts.k = "undef"
    /\ walk.status \in {"more", "done"}
    /\ cnt.status = "ok"

-----------------------------------------------------------------------------
(* Claims about the conjunction of two conditions (SpecFilter) *)

\* the ids row.infinite returns for the request with the conditions cs alone
MatchedBy(cs) ==
    LET resp == InfiniteResponse([req EXCEPT !.filters.conditions = cs], Undef)
    IN  {resp.rows[i].id : i \in 1..Len(resp.rows)}

TwoConditionsListed ==
    /\ walk.status = "done"
    /\ req.filters.k = "filters"
    /\ Len(req.filters.conditions) = 2

\* C8 as stated: for any two conditions of the input schema, or returns the
\* union of what each condition returns alone, and returns the intersection.
C8_AnyTwoConditions ==
    TwoConditionsListed =>
        \A m1 \in {MatchedBy(<<req.filters.conditions[1]>>)},
           m2 \in {MatchedBy(<<req.filters.conditions[2]>>)} :
            ReturnedIds = IF req.filters.conjunction = "or" THEN m1 \cup m2 ELSE m1 \cap m2

\* C8 amended: and returns the intersection; or returns the union when the
\* operators of both conditions are recognised for their column's type (or of
\* neither), and what the recognised condition returns alone when only one is.
C8_RecognisedConditions ==
    TwoConditionsListed =>
        \A m1 \in {MatchedBy(<<req.filters.conditions[1]>>)},
           m2 \in {MatchedBy(<<req.filters.conditions[2]>>)},
           p1 \in {PushesCondition(req.filters.conditions[1], columns)},
           p2 \in {PushesCondition(req.filters.conditions[2], columns)} :
            ReturnedIds = IF req.filters.conjunction = "and" THEN m1 \cap m2
                          ELSE IF p1 = p2 THEN m1 \cup m2
                          ELSE IF p1 THEN m1 ELSE m2

\* an or of two recognised conditions that returned more rows than either alone
C8_Witness ==
    /\ TwoConditionsListed
    /\ req.filters.conjunction = "or"
    /\ PushesCondition(req.filters.conditions[1], columns)
    /\ PushesCondition(req.filters.conditions[2], columns)
    /\ MatchedBy(<<req.filters.conditions[1]>>) # ReturnedIds
    /\ MatchedBy(<<req.filters.conditions[2]>>) # ReturnedIds
    /\ MatchedBy(<<req.filters.conditions[1]>>) \cup MatchedBy(<<req.filters.conditions[2]>>) = ReturnedIds

-----------------------------------------------------------------------------
(* Claims about one response of row.infinite (SpecPages) *)

\* the matching rows after the position of the last request's cursor: all the
\* matching rows when the request had no cursor
Remaining ==
    IF walk.sent.k = "cursor" THEN AfterSent
    ELSE {r \in TableRows(req.tableId) : Matches(r)}

\* the value a cursor carries for a cell: the cell, null when absent or ''
CursorValueOf(v) == IF IsEmptyCell(v) THEN JNull ELSE v

\* C11: when more than limit rows remain, the (limit+1)-th of them is not in
\* the response and nextCursor carries its id with its order (no sort) or its
\* sort cell, null when absent or '' (sort); it is not the last row kept.
C11_CursorFromPoppedRow ==
    walk.status = "more" =>
        \A rem \in {Remaining}, page \in {LastPage}, ps \in {WalkSort} :
            \E popped \in rem :
                /\ Cardinality({r \in rem : ListedBefore(r, popped, ps)}) = req.limit
                /\ \A i \in 1..Len(page) : page[i] # popped
                /\ walk.cursor.id = popped.id
                /\ walk.cursor.id # page[Len(page)].id
                /\ IF ps.k = "undef"
                   THEN walk.cursor.order = JNum(popped.order)
                   ELSE walk.cursor.sortValue = CursorValueOf(CellOf(popped, ps.columnId))

\* a sorted page whose popped row stores the empty string: the cursor carries null
C11_Witness ==
    /\ walk.status = "more"
    /\ WalkSort.k = "sort"
    /\ Len(LastPage) = req.limit
    /\ walk.cursor.sortValue = JNull
    /\ \E r \in Remaining :
          /\ r.id = walk.cursor.id
          /\ CellOf(r, WalkSort.columnId) = TextEmpty

\* C12: a response holds at most limit rows, and has a nextCursor exactly when
\* more than limit matching rows remain after the request's cursor position.
C12_PageSizeAndHasMore ==
    walk.status \in {"more", "done"} =>
        /\ Len(LastPage) <= req.limit
        /\ (walk.cursor.k = "cursor") <=> (Cardinality(Remaining) > req.limit)

\* a request with a cursor after which exactly limit rows remained: a full page
\* of two rows and no nextCursor
C12_Witness ==
    /\ walk.status = "done"
    /\ walk.sent.k = "cursor"
    /\ req.limit = 2
    /\ Len(LastPage) = 2
    /\ Cardinality(Remaining) = 2

-----------------------------------------------------------------------------
(* Claims about single conditions and the search (SpecFilter) *)

\* an operator that is not valid for the type of the condition's column
NotValidForType(c) ==
    IF ColType(columns, c.columnId) = "NUMBER" THEN c.operator \in {"contains", "notContains"}
    ELSE c.operator \in {"gt", "lt"}

\* C13: a filter set with a condition whose operator is not valid for its
\* column's type matches the rows the set matches with that condition removed,
\* under both conjunctions, and the request does not fail.
C13_UnknownOperatorIsNoOp ==
    (walk.status # "idle" /\ req.filters.k = "filters" /\ Len(req.filters.conditions) = 2) =>
        /\ NotValidForType(req.filters.conditions[1]) =>
              walk.status = "done" /\ ReturnedIds = MatchedBy(<<req.filters.conditions[2]>>)
        /\ NotValidForType(req.filters.conditions[2]) =>
              walk.status = "done" /\ ReturnedIds = MatchedBy(<<req.filters.conditions[1]>>)

\* an and of gt on the TEXT column with a valid condition that matches some
\* rows but not all
C13_Witness ==
    /\ TwoConditionsListed
    /\ req.filters.conjunction = "and"
    /\ req.filters.conditions[1].columnId = "cName"
    /\ req.filters.conditions[1].operator = "gt"
    /\ ~NotValidForType(req.filters.conditions[2])
    /\ ReturnedIds # {}
    /\ ReturnedIds # {r.id : r \in TableRows(req.tableId)}

\* the walk's request had one condition and its page is in
OneConditionListed ==
    /\ walk.status = "done"
    /\ req.filters.k = "filters"
    /\ Len(req.filters.conditions) = 1

TheCondition == req.filters.conditions[1]

\* what a condition on a NUMBER column is to match: gt, lt, equals compare the
\* number of a non-empty cell with Number(v) (nothing is above, below or equal
\* to NaN); isEmpty the absent, null and '' cells; isNotEmpty the others
NumberConditionHolds(c, r) ==
    LET cell == CellOf(r, c.columnId)
        v == JsNumber(c.value)
    IN  CASE c.operator = "gt" -> ~IsEmptyCell(cell) /\ v.k = "num" /\ cell.n > v.n
          [] c.operator = "lt" -> ~IsEmptyCell(cell) /\ v.k = "num" /\ cell.n < v.n
          [] c.operator = "equals" -> ~IsEmptyCell(cell) /\ v.k = "num" /\ cell.n = v.n
          [] c.operator = "isEmpty" -> IsEmptyCell(cell)
          [] c.operator = "isNotEmpty" -> ~IsEmptyCell(cell)

C14_NumericValues ==
    ( /\ OneConditionListed
      /\ ColType(columns, TheCondition.columnId) = "NUMBER"
      /\ TheCondition.operator \in {"gt", "lt", "equals", "isEmpty", "isNotEmpty"}
      /\ JsNumber(TheCondition.value).k = "num" ) =>
        ReturnedIds = {r.id : r \in {x \in TableRows(req.tableId) :
                                        NumberConditionHolds(TheCondition, x)}}

\* the rows of the walk's table whose cell under the condition's column is
\* absent or null
AbsentOrNullRows ==
    {r \in TableRows(req.tableId) :
        TheCondition.columnId \notin DOMAIN r.cells \/ r.cells[TheCondition.columnId] = JNull}

OneTextConditionListed ==
    /\ OneConditionListed
    /\ ColType(columns, TheCondition.columnId) = "TEXT"

\* C15 as stated: a row whose TEXT cell is absent or null matches notContains
\* for every condition value, and never matches contains.
C15_EmptyCellNotContainsAnyValue ==
    OneTextConditionListed =>
        /\ TheCondition.operator = "notContains" => \A r \in AbsentOrNullRows : r.id \in ReturnedIds
        /\ TheCondition.operator = "contains" => \A r \in AbsentOrNullRows : r.id \notin ReturnedIds

\* the text of the condition's value has a character other than the wildcard %
HasPlainCharacter(v) ==
    \E i \in 1..Len(JsStringOrEmpty(v)) : JsStringOrEmpty(v)[i] # Ch.percent

\* C15 amended: a row whose TEXT cell is absent or null matches notContains
\* when the value's text has a character other than %, and does not match it
\* for an omitted, null or empty value (or one of % only); it never matches
\* contains.
C15_EmptyCellNotContainsPlainValue ==
    OneTextConditionListed =>
        /\ TheCondition.operator = "notContains" =>
              \A r \in AbsentOrNullRows :
                  (r.id \in ReturnedIds) <=> HasPlainCharacter(TheCondition.value)
        /\ TheCondition.operator = "contains" => \A r \in AbsentOrNullRows : r.id \notin ReturnedIds

\* notContains "a" returned a row with an absent or null cell and left a row out
C15_Witness ==
    /\ OneTextConditionListed
    /\ TheCondition.operator = "notContains"
    /\ TheCondition.value = TextA
    /\ \E r \in AbsentOrNullRows : r.id \in ReturnedIds
    /\ \E r \in TableRows(req.tableId) : r.id \notin ReturnedIds

\* the rows of the walk's table whose cell under the condition's column is the
\* stored string ''
StoredEmptyRows ==
    {r \in TableRows(req.tableId) :
        TheCondition.columnId \in DOMAIN r.cells /\ r.cells[TheCondition.columnId] = JStr(<<>>)}

\* C16: on a TEXT column equals with '' (or a null or omitted value) matches
\* the rows whose cell is the stored '' and no row whose cell is absent or null;
\* isEmpty matches both kinds of row.
C16_EqualsEmptyVersusIsEmpty ==
    OneTextConditionListed =>
        /\ ( /\ TheCondition.operator = "equals"
             /\ TheCondition.value \in {JStr(<<>>), JNull, Undef} ) =>
                ReturnedIds = {r.id : r \in StoredEmptyRows}
        /\ TheCondition.operator = "isEmpty" =>
                \A r \in StoredEmptyRows \cup AbsentOrNullRows : r.id \in ReturnedIds

\* equals with an omitted value returned a row storing '' and left out a row
\* with an absent cell
C16_Witness ==
    /\ OneTextConditionListed
    /\ TheCondition.operator = "equals"
    /\ TheCondition.value = Undef
    /\ ReturnedIds # {}
    /\ \E r \in AbsentOrNullRows : r.id \notin ReturnedIds

-----------------------------------------------------------------------------
(* Claims about the search (SpecSearch) *)

\* text t contains q as a substring, letters compared without case
ContainsIgnoringCase(t, q) ==
    \E off \in 0..(Len(t) - Len(q)) :
        \A i \in 1..Len(q) : LowerCh(t[off + i]) = LowerCh(q[i])

\* the text of a cell: the string, the digits of a number, nothing for an
\* absent or null cell
TextOfCell(r, c) == JsStringOrEmpty(CellOf(r, c))

SearchListed ==
    /\ walk.status = "done"
    /\ req.search.k = "str"
    /\ Trim(req.search.s) # <<>>

\* C17: for a search whose trimmed form q is not empty, a row matches exactly
\* when the text of one of its cells under the table's columns contains q as a
\* case-insensitive substring, whatever characters q consists of.
C17_SearchIsSubstringMatch ==
    SearchListed =>
        ReturnedIds = {r.id : r \in {x \in TableRows(req.tableId) :
                          \E c \in DOMAIN columns :
                              ContainsIgnoringCase(TextOfCell(x, c), Trim(req.search.s))}}

\* C17 for the search strings without the characters % and _
C17_PlainSearch ==
    ( /\ SearchListed
      /\ \A i \in 1..Len(req.search.s) : req.search.s[i] \notin {Ch.percent, Ch.underscore} ) =>
        ReturnedIds = {r.id : r \in {x \in TableRows(req.tableId) :
                          \E c \in DOMAIN columns :
                              ContainsIgnoringCase(TextOfCell(x, c), Trim(req.search.s))}}

-----------------------------------------------------------------------------
(* Claims about a request sent twice (SpecRefetch) *)

\* C18: a row.infinite call with the arguments and the cursor of the call
\* before it, against the same store, returns the same rows and the same
\* nextCursor; no call changes the rows, the columns or the view.
C18_SameArgumentsSameResponse ==
    [][ /\ ( /\ walk.status \in {"more", "done"}
             /\ walk'.sent = walk.sent
             /\ Len(walk'.pages) = Len(walk.pages) ) => walk' = walk
        /\ rows' = rows
        /\ columns' = columns
        /\ viewCfg' = viewCfg ]_vars

\* a sorted page cut between two rows with equal sort keys: the row kept and
\* the row of the nextCursor differ in their id only
C18_Witness ==
    /\ walk.status = "more"
    /\ WalkSort.k = "sort"
    /\ \E r \in TableRows(req.tableId) :
          /\ r.id = walk.cursor.id
          /\ CellOf(r, WalkSort.columnId) = CellOf(LastPage[Len(LastPage)], WalkSort.columnId)
          /\ ~IsEmptyCell(CellOf(r, WalkSort.columnId))

-----------------------------------------------------------------------------
(* Claims about calls on what is missing or not the caller's (SpecNotFound) *)

\* the calls that have failed at this step
FailedNow == failures' \ failures

\* C19: row.infinite and row.count on a table that is missing or of another
\* user answer NOT_FOUND with no rows and no count; addRow and generate100k go
\* on to their writes for the caller's tables only; updateCell goes on to its
\* write only for a row of the caller and a column of that row's table; a call
\* that fails fails with NOT_FOUND and leaves every row, column and view, and
\* every call in flight, as it was.
C19_NotFoundChangesNothing ==
    [][ /\ (req.tableId \notin OwnedTables /\ walk' # walk) =>
               /\ walk'.status = "NOT_FOUND"
               /\ walk'.pages = <<>>
               /\ walk'.cursor = Undef
               /\ <<rows', columns', viewCfg'>> = <<rows, columns, viewCfg>>
        /\ (req.tableId \notin OwnedTables /\ cnt' # cnt) =>
               /\ cnt'.status = "NOT_FOUND"
               /\ cnt'.count = 0
               /\ <<rows', columns', viewCfg'>> = <<rows, columns, viewCfg>>
        /\ \A p \in Adders :
               (adders[p].pc = "idle" /\ adders'[p].pc = "create") =>
                   adders'[p].tableId \in OwnedTables
        /\ (gen.pc = "idle" /\ gen'.pc = "loop") => gen'.tableId \in OwnedTables
        /\ \A p \in Updaters :
               (updaters[p].pc = "idle" /\ updaters'[p].pc = "write") =>
                   /\ OwnedRows(updaters'[p].rowId) # {}
                   /\ updaters'[p].columnId \in DOMAIN columns
        /\ FailedNow # {} =>
               /\ \A f \in FailedNow : f.code = "NOT_FOUND"
               /\ <<rows', columns', viewCfg'>> = <<rows, columns, viewCfg>>
               /\ <<adders', gen', updaters'>> = <<adders, gen, updaters>>
        /\ \A r \in rows' :
               r.tableId \notin OwnedTables => r \in rows ]_vars

\* every one of the five calls has failed on the other user's table or row,
\* and the store is the one the calls found
C19_Witness ==
    /\ req.tableId \notin OwnedTables
    /\ walk.status = "NOT_FOUND"
    /\ cnt.status = "NOT_FOUND"
    /\ {f.call : f \in failures} = {"addRow", "generate100k", "updateCell"}
    /\ ForeignRow \in rows
    /\ \A p \in Updaters : updaters[p].pc = "idle"

-----------------------------------------------------------------------------
(* Claims about normalizeViewConfig (SpecNormalize) *)

\* C21: for every config value and every list of column ids normalizeViewConfig
\* returns, without throwing, a config whose conjunction is and or or (or only
\* when the input says or), whose conditions and sorts hold only entries with a
\* non-empty string columnId, whose columnVisibility has exactly the given
\* column ids as keys, true unless the input stored false, and whose rowHeight
\* is one of short, medium, tall, extra_tall (short when the input has none of them).
C21_NormalizeIsTotal ==
    norm.k = "done" =>
        /\ norm.result.k = "ok"
        /\ norm.result.filters.conjunction \in {"and", "or"}
        /\ norm.result.filters.conjunction = "or" <=>
               Field(OrEmptyObject(Field(OrEmptyObject(viewCfg), "filters")), "conjunction") = JWord("or")
        /\ \A i \in 1..Len(norm.result.filters.conditions) :
               NonEmptyString(norm.result.filters.conditions[i].columnId)
        /\ \A i \in 1..Len(norm.result.sorts) : NonEmptyString(norm.result.sorts[i].columnId)
        /\ DOMAIN norm.result.columnVisibility = {norm.columnIds[i] : i \in 1..Len(norm.columnIds)}
        /\ \A id \in DOMAIN norm.result.columnVisibility :
               norm.result.columnVisibility[id] <=>
                   VisibilityAt(OrEmptyObject(Field(OrEmptyObject(viewCfg), "columnVisibility")), id)
                       # JBool(FALSE)
        /\ norm.result.rowHeight \in {"short", "medium", "tall", "extra_tall"}
        /\ norm.result.rowHeight # "short" =>
               Field(OrEmptyObject(viewCfg), "rowHeight") = JWord(norm.result.rowHeight)

\* the config has a null among its conditions or its sorts
HasNullElement ==
    LET cfg == OrEmptyObject(viewCfg)
        conditionsRaw == ArrayOrEmpty(Field(OrEmptyObject(Field(cfg, "filters")), "conditions"))
        sortsRaw == ArrayOrEmpty(Field(cfg, "sorts"))
    IN  \/ \E i \in 1..Len(conditionsRaw) : conditionsRaw[i].k = "null"
        \/ \E i \in 1..Len(sortsRaw) : sortsRaw[i].k = "null"

\* the same for every config with no null among its conditions and sorts
C21_NormalizeOfListsWithoutNull ==
    (norm.k = "done" /\ ~HasNullElement) => C21_NormalizeIsTotal

-----------------------------------------------------------------------------
(* Claims about cells and columns (SpecColumns) *)

\* C22: in every reachable state, with the statements of column.delete and of
\* updateCell interleaved in any way, every key of every row's cells is the id
\* of a column of the row's table.
C22_CellKeysAreColumns ==
    \A r \in TableRows("t1") : DOMAIN r.cells \subseteq DOMAIN columns

\* the same while no column.delete has begun: updateCell alone never stores a
\* key that is not a column
C22_CellKeysAreColumnsWithoutDelete ==
    (colDel.pc = "idle" /\ DOMAIN columns = DOMAIN DefaultColumns) => C22_CellKeysAreColumns

-----------------------------------------------------------------------------
(* Claims about calls that run one at a time (SpecSequential) *)

\* the rows a step creates
CreatedNow == rows' \ rows

\* one more than the largest order of the table's rows, 1 for a table with no row
NextOrder(tableId) ==
    IF TableRows(tableId) = {} THEN 1
    ELSE 1 + CHOOSE m \in {r.order : r \in TableRows(tableId)} :
                 \A r \in TableRows(tableId) : r.order <= m

\* C23: an addRow that runs alone creates exactly one row, with no cells and
\* with an order one more than the largest of its table (1 in a table with no
\* row), which puts it last in the (order, id) ordering; every batch of a
\* generate100k that runs alone creates rows with consecutive orders from that
\* same value on, the next batch going on where the one before stopped.
C23_SequentialOrderAssignment ==
    [][ /\ \A p \in Adders :
               (adders[p].pc = "create" /\ adders'[p].pc = "idle") =>
                   /\ rows \subseteq rows'
                   /\ Cardinality(CreatedNow) = 1
                   /\ \A r \in CreatedNow :
                          /\ r.tableId = adders[p].tableId
                          /\ r.cells = EmptyCells
                          /\ r.order = NextOrder(r.tableId)
                          /\ \A x \in TableRows(r.tableId) : ListedBefore(x, r, Undef)
        /\ (gen.pc = "loop" /\ gen' # gen) =>
               /\ rows \subseteq rows'
               /\ Cardinality(CreatedNow) = GenBatch
               /\ \A r \in CreatedNow : r.tableId = gen.tableId
               /\ {r.order : r \in CreatedNow} =
                      NextOrder(gen.tableId)..(NextOrder(gen.tableId) + GenBatch - 1) ]_vars

\* an addRow and a generate100k have both run to their end, one after the other
C23_Witness ==
    /\ Quiet
    /\ \E c \in inserted : c.by = "addRow"
    /\ \E c \in inserted : c.by = "generate100k"

-----------------------------------------------------------------------------
(* Claims about walks followed to their end (SpecTerminate) *)

\* the rows the request matches
MatchingRows == {r \in TableRows(req.tableId) : Matches(r)}

\* the nextCursor of the last response lies strictly after the cursor of its
\* request, in the order of the walk
CursorAdvances ==
    (walk.status = "more" /\ walk.sent.k = "cursor") =>
        StrictlyAfter(RowOfId(walk.cursor.id), walk.sent, WalkSort)

\* the statement with the number of matching rows as the bound on the requests
C24_EndsWithinMatchingRows ==
    /\ [](Len(walk.pages) <= Cardinality(MatchingRows) /\ CursorAdvances)
    /\ <>(walk.status = "done")

\* C24: with fixed arguments and no writes, a walk that follows nextCursor
\* gets a response without nextCursor after at most as many requests as there
\* are matching rows (one request when no row matches), and every nextCursor
\* lies strictly after the cursor of the request that returned it.
C24_PaginationTerminates ==
    /\ [](Len(walk.pages) <= Max({1, Cardinality(MatchingRows)}) /\ CursorAdvances)
    /\ <>(walk.status = "done")

\* a walk of three requests has ended: each of the two cursors sent was
\* followed by rows strictly after it
C24_Witness ==
    /\ walk.status = "done"
    /\ Len(walk.pages) = 3
    /\ walk.sent.k = "cursor"

-----------------------------------------------------------------------------
(* Claims about sorted walks with concurrent cell edits (SpecEdit) *)

\* how many times the walk has returned the row with this id
TimesReturned(id) == Cardinality({i \in 1..Len(Returned) : Returned[i].id = id})

\* a row whose sort cell was changed after the walk had returned it is not
\* returned a second time
EditedRowNotReturnedAgain ==
    \A e \in edited : (e.returned /\ e.columnId = WalkSort.columnId) => TimesReturned(e.id) <= 1

\* a row whose sort cell was changed before the walk had returned it is
\* returned by the time the walk ends
EditedRowNotMissing ==
    walk.status = "done" =>
        \A e \in edited : (~e.returned /\ e.columnId = WalkSort.columnId) => e.id \in ReturnedIds

\* C25: in a walk sorted on column c, an updateCell that changes the c cell of
\* a row returned on an earlier page does not make a later page return that
\* row again, and an updateCell on a row not yet returned does not make the
\* whole walk miss that row.
C25_SortedWalkSurvivesEdits ==
    EditedRowNotReturnedAgain /\ EditedRowNotMissing

-----------------------------------------------------------------------------
(* Claims about concurrent updateCell calls (SpecLost) *)

\* C26: when updateCell calls on one row and on different columns have all
\* completed, however their reads and writes were interleaved, the row's cells
\* hold the value of each call under its column.
C26_NoLostCellUpdate ==
    (\A p \in Updaters : updaters[p].pc = "idle") =>
        \A e1, e2 \in edited :
            (e1.id = e2.id /\ e1.columnId # e2.columnId) =>
                /\ CellOf(RowOfId(e1.id), e1.columnId) = e1.value
                /\ CellOf(RowOfId(e2.id), e2.columnId) = e2.value

\* the same for a single call: the value it wrote is the value of the cell
C26_OneUpdateIsKept ==
    (\A p \in Updaters : updaters[p].pc = "idle") =>
        \A e \in edited :
            (\A e2 \in edited : e2.id = e.id => e2 = e) =>
                CellOf(RowOfId(e.id), e.columnId) = e.value

-----------------------------------------------------------------------------
(* Claims about the stored cells (SpecStore) *)

\* C27: after any addRow, generate100k and updateCell calls on the table of
\* createWithDefaults, every cell stored under a NUMBER column is a number or
\* null and every cell stored under a TEXT column is a string or null, so the
\* numeric cast of filters and sorts never meets a text that is no number.
C27_CellsAgreeWithColumnType ==
    \A r \in TableRows("t1") :
        \A c \in DOMAIN r.cells \cap DOMAIN columns :
            IF columns[c] = "NUMBER"
            THEN /\ r.cells[c].k \in {"num", "null"}
                 /\ NumericCast(CellText(r, c)).k # "err"
            ELSE r.cells[c].k \in {"str", "null"}

\* updateCell has stored the text '1' as the number 1 and a text that is no
\* number as null under the NUMBER column, and the number 2 as the text '2'
\* under the TEXT column
C27_Witness ==
    /\ \E e \in edited : e.columnId = "cValue" /\ e.value = JNum(1)
                         /\ CellOf(RowOfId(e.id), "cValue") = JNum(1)
    /\ \E e \in edited : e.columnId = "cName" /\ e.value = JStr(Digits(2))
                         /\ CellOf(RowOfId(e.id), "cName") = JStr(Digits(2))
    /\ \E r \in rows : \E c \in inserted : c.id = r.id /\ c.by = "generate100k"

\* C28: an updateCell that runs with no other updateCell beside it changes, in
\* the row it names, the entry of its column and nothing else: the row keeps
\* its id, order and table and every other entry of its cells, and every other
\* row stays as it is; no step of addRow, generate100k or updateCell removes a
\* row or changes the order of a row that exists.
C28_UpdateCellChangesOneCell ==
    [][ /\ \A p \in Updaters :
               (updaters[p].pc = "write" /\ updaters'[p].pc = "idle") =>
                   /\ \A r \in rows : r.id # updaters[p].rowId => r \in rows'
                   /\ Cardinality(rows') = Cardinality(rows)
                   /\ \A r \in rows :
                          r.id = updaters[p].rowId =>
                              \E w \in rows' :
                                  /\ w.id = r.id
                                  /\ w.order = r.order
                                  /\ w.tableId = r.tableId
                                  /\ DOMAIN w.cells = DOMAIN r.cells \cup {updaters[p].columnId}
                                  /\ w.cells[updaters[p].columnId] = updaters[p].nextValue
                                  /\ \A c \in DOMAIN r.cells :
                                         c # updaters[p].columnId => w.cells[c] = r.cells[c]
        /\ \A r \in rows :
               \E w \in rows' : w.id = r.id /\ w.order = r.order /\ w.tableId = r.tableId ]_vars

\* a row holds the values of two updateCell calls, one per column: the second
\* call found the entry of the first and kept it
C28_Witness ==
    \E e1, e2 \in edited :
        /\ e1.id = e2.id
        /\ e1.columnId # e2.columnId
        /\ e1.value.k # "null"
        /\ e2.value.k # "null"
        /\ CellOf(RowOfId(e1.id), e1.columnId) = e1.value
        /\ CellOf(RowOfId(e2.id), e2.columnId) = e2.value

-----------------------------------------------------------------------------
(* The view router: create, setDefault and delete interleaved (SpecViews) *)

\* the view ids the calls name: the default views, the created ones, a missing one
ViewIdInputs == {v.id : v \in DefaultViews} \cup {NewViewIds[i] : i \in 1..MaxViewCreates}
                \cup {MissingViewId}

\* the tables view.create is called for: the table of the rows, the other user's table
ViewTableInputs == {RowTable, "t2"}

InitViews ==
    /\ rows = SeedTable(<<Cells(TextA, JNum(1))>>)
    /\ columns = DefaultColumns
    /\ viewCfg = DefaultViewConfig
    /\ nanBind = "NULL"
    /\ req = Request("t1", 1, Undef, Undef, Undef, "none")
    /\ InitClient

NextViews ==
    \/ \E p \in ViewProcs, t \in ViewTableInputs : ViewCreateRead(p, t)
    \/ \E p \in ViewProcs : ViewCreateInsert(p)
    \/ \E p \in ViewProcs, v \in ViewIdInputs : ViewSetDefaultRead(p, v)
    \/ \E p \in ViewProcs : ViewSetDefaultTransaction(p)
    \/ \E p \in ViewProcs, v \in ViewIdInputs : ViewDeleteRead(p, v)
    \/ \E p \in ViewProcs : ViewDeleteDelete(p)

SpecViews == InitViews /\ [][NextViews]_vars

\* the default views of a table
DefaultViewsOf(t) == {v \in views : v.tableId = t /\ v.isDefault}

ExactlyOneDefaultView == \A t \in Tables : Cardinality(DefaultViewsOf(t)) = 1

\* a view.delete call that names a default view throws BAD_REQUEST where it
\* reads the view and goes no further, the step that throws BAD_REQUEST writes
\* nothing, and no step takes a default view out of the View table
DeleteOfDefaultFails ==
    /\ \A p \in ViewProcs :
           /\ (viewOps[p].pc = "idle" /\ viewOps'[p].pc = "delete") =>
                  \A v \in OwnedViews(viewOps'[p].viewId) : ~v.isDefault
           /\ (viewOps'[p] # viewOps[p] /\ viewOps'[p].outcome = "BAD_REQUEST") =>
                  viewOps[p].pc = "idle" /\ views' = views
    /\ \A v \in views : v.isDefault => \E w \in views' : w.id = v.id

\* C29: in every state the interleaved steps of view.create, view.setDefault
\* and view.delete reach from the tables createWithDefaults made, every table
\* has exactly one default view, and a view.delete of a default view fails with
\* BAD_REQUEST and deletes nothing.
C29_ExactlyOneDefaultView == [](ExactlyOneDefaultView) /\ [][DeleteOfDefaultFails]_vars

\* no table has two default views, and a table other than the one a
\* view.delete wrote to has exactly one
C29_AtMostOneDefaultView == \A t \in Tables : Cardinality(DefaultViewsOf(t)) <= 1

-----------------------------------------------------------------------------
(* Requests that name a view of another table (SpecForeignView) *)

\* persisted configs that parse: the default one, and ones with a search, a
\* filter or a sort
ForeignViewConfigs ==
    {[k |-> "obj", search |-> se, filters |-> fi, sorts |-> so] :
        se \in {Undef, TextA},
        fi \in {Undef, JFilters("and", <<JCond("cValue", "isNotEmpty", Undef)>>)},
        so \in {Undef, JSorts("cValue", "desc")}}

\* requests on the caller's table t1 that name no view, the view of t1, the
\* view of the caller's table t3, the view of the other user's table, no view
\* that exists
ForeignViewRequests ==
    { Request(RowTable, 2, se, Undef, Undef, v) :
        se \in {Undef, TextB},
        v \in {"none", MissingViewId} \cup {w.id : w \in DefaultViews} }

InitForeignView ==
    /\ rows \in WalkSeeds
    /\ columns = DefaultColumns
    /\ viewCfg \in ForeignViewConfigs
    /\ nanBind = "NULL"     \* no filter of these requests binds a number
    /\ req \in ForeignViewRequests
    /\ InitClient

SpecForeignView == InitForeignView /\ [][NextQuery]_vars

\* the view the request names is a view of the table the request names
ViewOfRequestedTable == \E v \in views : v.id = req.viewId /\ v.tableId = req.tableId

\* C30: row.infinite and row.count apply the persisted config of a view only
\* when the view belongs to the requested table: a request that names a view of
\* another table, of another user, or no existing view gets the page, the
\* cursor and the count of the same request sent without viewId.
C30_ViewAffectsOwnTableOnly ==
    /\ (walk.status \in {"more", "done"} /\ ~ViewOfRequestedTable) =>
           \A resp \in {InfiniteResponse([req EXCEPT !.viewId = "none"], walk.sent)} :
               /\ resp.rows = walk.pages[Len(walk.pages)]
               /\ resp.nextCursor = walk.cursor
    /\ (cnt.status = "ok" /\ ~ViewOfRequestedTable) =>
           cnt.count = CountResponse([req EXCEPT !.viewId = "none"]).count

\* a view of another user, or no view at all under the id, leaves page, cursor
\* and count as they are without viewId
C30_UnownedViewIsIgnored ==
    /\ (walk.status \in {"more", "done"} /\ ~FindViewConfig(req.viewId).found) =>
           \A resp \in {InfiniteResponse([req EXCEPT !.viewId = "none"], walk.sent)} :
               /\ resp.rows = walk.pages[Len(walk.pages)]
               /\ resp.nextCursor = walk.cursor
    /\ (cnt.status = "ok" /\ ~FindViewConfig(req.viewId).found) =>
           cnt.count = CountResponse([req EXCEPT !.viewId = "none"]).count

====
